---- MODULE Spec2Model ----
(***************************************************************************)
(* raiqub/data: the expiring in-memory key:value store.                    *)
(*                                                                         *)
(* memstore.Store (src/memstore/store.go) is the time-gated store: its     *)
(* sweep gc() is skipped while less than lifetime/5 has elapsed since the  *)
(* previous sweep.  Entries are *MemData (src/unnamed/part_001).           *)
(*                                                                         *)
(* Spec      : one caller; every public operation is one atomic action     *)
(*             evaluated at the clock value `now`.                         *)
(* SpecAdd   : several goroutines, each running Add on its own key, one    *)
(*             lock operation or critical section per step, followed by a  *)
(*             Count of the main goroutine.                                *)
(*                                                                         *)
(* Time is an integer number of ticks; time.Duration values are ticks.     *)
(***************************************************************************)
EXTENDS Integers, FiniteSets, Sequences, TLC

\* ------------------------------------------------------------------ bounds
MaxTime == 2

Keys == {"k1", "k2"}

\* Durations handed to New and SetLifetime.
Durations == {1, 10}

MaxDuration == CHOOSE d \in Durations : \A e \in Durations : e <= d

\* Stored values: the nil interface and an int.
Values == {"nil", "i1"}

\* ------------------------------------------------------------ Go constants
\* data.LifetimeScope
ScopeAll == 0

ScopeNewAndUpdated == 1

ScopeNew == 2

\* A scope value outside the declared constants.
ScopeOther == ScopeNew + 1

Scopes == {ScopeAll, ScopeNewAndUpdated, ScopeNew, ScopeOther}

\* dot.LockStatus
Unlocked == "Unlocked"

ReadLocked == "ReadLocked"

WriteLocked == "WriteLocked"

\* error results; "panic" is a run-time panic leaving the call.
ErrNil == "nil"

InvalidKeyError == "InvalidKeyError"

DuplicatedKeyError == "DuplicatedKeyError"

NotSupportedError == "NotSupportedError"

IndereferenceError == "IndereferenceError"

Panic == "panic"

\* The zero time.Time of a fresh Store's lastgc: earlier than any clock value
\* minus any sweep interval.
ZeroTime == 0 - 1 - (MaxDuration \div 5)

\* ---------------------------------------------------------------- values
\* reflect.TypeOf of a stored value.
TypeOf(v) ==
  CASE v = "nil" -> "nil"
    [] v \in {"i0", "i1"} -> "int"
    [] v = "s0" -> "string"

\* Destinations handed to Get: a non-pointer, a nil pointer, or a pointer to
\* a variable of type elem that holds old.
Dsts ==
  { [kind |-> "nonptr", elem |-> "none", old |-> "none"],
    [kind |-> "nilptr", elem |-> "int", old |-> "none"],
    [kind |-> "ptr", elem |-> "int", old |-> "i0"],
    [kind |-> "ptr", elem |-> "string", old |-> "s0"],
    [kind |-> "ptr", elem |-> "interface", old |-> "s0"] }

\* reflect: a value of type t is assignable to a variable of type elem.
AssignableTo(t, elem) == elem = "interface" \/ t = elem

\* setValue(src, dst): the error returned and what dst holds afterwards.
setValue(src, dst) ==
  IF src = "nil" THEN [err |-> ErrNil, out |-> dst.old]
  ELSE IF dst.kind # "ptr" THEN [err |-> IndereferenceError, out |-> dst.old]
  ELSE IF AssignableTo(TypeOf(src), dst.elem) THEN [err |-> ErrNil, out |-> src]
  ELSE [err |-> Panic, out |-> dst.old]

\* --------------------------------------------------------------- MemData
NewMemData(lt, value, t) ==
  [expireAt |-> t + lt, lifetime |-> lt, value |-> value]

\* time.Now().After(i.expireAt)
IsExpired(e, t) == t > e.expireAt

Hit(e, t) == [e EXCEPT !.expireAt = t + e.lifetime]

EntrySetLifetime(e, d) == [e EXCEPT !.lifetime = d]

SetValue(e, value) == [e EXCEPT !.value = value]

\* ----------------------------------------------------------------- state
VARIABLES
  values,       \* Store.values: map from key to entry
  lifetime,     \* Store.lifetime
  isTransient,  \* Store.isTransient
  lastgc,       \* Store.lastgc
  gated,        \* the store is a memstore.Store, whose sweep has the gate;
                \* otherwise it is a MemStore, which has neither gate nor lastgc
  now,          \* the clock read by time.Now()
  ret,          \* the last completed call of the single caller and its results
  mutex,        \* Store.mutex
  pc,           \* per goroutine: position in its call
  loc,          \* per goroutine: locals of its call
  mem,          \* a MemStore that is given the calls of the Store at the
                \* same times: its values and the results of its last call
  mongo         \* a MongoStore: its fields, the records of its collection
                \* and the ExpireAfter of the collection's index

storeVars == <<values, lifetime, isTransient, lastgc, gated, mem, mongo>>

goVars == <<mutex, pc, loc>>

vars ==
  <<values, lifetime, isTransient, lastgc, gated, now, ret, mutex, pc, loc, mem,
    mongo>>

Has(m, k) == k \in DOMAIN m

\* delete(m, k)
MapDelete(m, k) == [x \in DOMAIN m \ {k} |-> m[x]]

\* m[k] = e
MapPut(m, k, e) == [x \in DOMAIN m \cup {k} |-> IF x = k THEN e ELSE m[x]]

EmptyMap == [x \in {} |-> 0]

Result(op, key, err, out, n) ==
  [op |-> op, key |-> key, err |-> err, out |-> out, n |-> n]

\* ------------------------------------------------------- one caller: sweep
\* The gate, but with an interval of half the lifetime.
GateSkipsHalf(lt, last, t) == last + (lt \div 2) > t

\* Store.gc's gate: the sweep is skipped.
GateSkips(lt, last, t) == last + (lt \div 5) > t

\* The expired entries, but an entry counts as expired from its expireAt on.
ExpiredInclusive(m, t) == {k \in DOMAIN m : t >= m[k].expireAt}

Expired(m, t) == {k \in DOMAIN m : IsExpired(m[k], t)}

\* Store.gc run by a single caller at time t: the map, lastgc and the lock
\* status it returns.  MemStore.gc (Swept, not gated) is never skipped.
gc(m, lt, last, t) ==
  IF GateSkips(lt, last, t)
  THEN [values |-> m, lastgc |-> last, status |-> Unlocked]
  ELSE LET x == Expired(m, t)
       IN [values |-> [k \in DOMAIN m \ x |-> m[k]],
           lastgc |-> t,
           status |-> IF x # {} THEN WriteLocked ELSE ReadLocked]

Swept ==
  IF gated THEN gc(values, lifetime, lastgc, now)
  ELSE [gc(values, lifetime, ZeroTime, now) EXCEPT !.lastgc = lastgc]

\* ------------------------------------------------- one caller: operations
\* Add, but an existing key is overwritten.
AddOverwrite(key, value) ==
  LET g == Swept
  IN /\ values' = MapPut(g.values, key, NewMemData(lifetime, value, now))
     /\ lastgc' = g.lastgc
     /\ ret' = Result("Add", key,
                      IF Has(g.values, key) THEN DuplicatedKeyError ELSE ErrNil,
                      "none", 0)
     /\ UNCHANGED <<mongo, mem, gated, lifetime, isTransient, now, goVars>>

\* Store.Add
Add(key, value) ==
  LET g == Swept
      dup == Has(g.values, key)
  IN /\ values' = IF dup THEN g.values
                  ELSE MapPut(g.values, key, NewMemData(lifetime, value, now))
     /\ lastgc' = g.lastgc
     /\ ret' = Result("Add", key, IF dup THEN DuplicatedKeyError ELSE ErrNil,
                      "none", 0)
     /\ UNCHANGED <<mongo, mem, gated, lifetime, isTransient, now, goVars>>

\* Store.Count
Count ==
  LET g == Swept
  IN /\ values' = g.values
     /\ lastgc' = g.lastgc
     /\ ret' = Result("Count", "", ErrNil, "none", Cardinality(DOMAIN g.values))
     /\ UNCHANGED <<mongo, mem, gated, lifetime, isTransient, now, goVars>>

\* Delete, but it reports success without removing the entry.
DeleteNoRemove(key) ==
  LET g == Swept
      ok == Has(g.values, key)
  IN /\ values' = g.values
     /\ lastgc' = g.lastgc
     /\ ret' = Result("Delete", key, IF ok THEN ErrNil ELSE InvalidKeyError,
                      "none", 0)
     /\ UNCHANGED <<mongo, mem, gated, lifetime, isTransient, now, goVars>>

\* Store.Delete
Delete(key) ==
  LET g == Swept
      ok == Has(g.values, key)
  IN /\ values' = IF ok THEN MapDelete(g.values, key) ELSE g.values
     /\ lastgc' = g.lastgc
     /\ ret' = Result("Delete", key, IF ok THEN ErrNil ELSE InvalidKeyError,
                      "none", 0)
     /\ UNCHANGED <<mongo, mem, gated, lifetime, isTransient, now, goVars>>

\* Flush, but only the expired entries are dropped.
FlushExpired ==
  /\ values' = [k \in DOMAIN values \ Expired(values, now) |-> values[k]]
  /\ ret' = Result("Flush", "", ErrNil, "none", 0)
  /\ UNCHANGED <<mongo, mem, gated, lifetime, isTransient, lastgc, now, goVars>>

\* Store.Flush
Flush ==
  /\ values' = EmptyMap
  /\ ret' = Result("Flush", "", ErrNil, "none", 0)
  /\ UNCHANGED <<mongo, mem, gated, lifetime, isTransient, lastgc, now, goVars>>

\* The renewal without its Hit.
RenewNoHit(e) ==
  IF isTransient THEN e ELSE EntrySetLifetime(e, lifetime)

\* The renewal of Get and Set: v.SetLifetime(s.lifetime); v.Hit()
Renew(e) ==
  IF isTransient THEN e ELSE Hit(EntrySetLifetime(e, lifetime), now)

\* Store.Get
Get(key, dst) ==
  LET g == Swept
      ok == Has(g.values, key)
      r == setValue(g.values[key].value, dst)
  IN /\ values' = IF ok THEN MapPut(g.values, key, Renew(g.values[key]))
                  ELSE g.values
     /\ lastgc' = g.lastgc
     /\ ret' = IF ok THEN Result("Get", key, r.err, r.out, 0)
               ELSE Result("Get", key, InvalidKeyError, dst.old, 0)
     /\ UNCHANGED <<mongo, mem, gated, lifetime, isTransient, now, goVars>>

\* Store.GC
GC ==
  LET g == Swept
  IN /\ values' = g.values
     /\ lastgc' = g.lastgc
     /\ ret' = Result("GC", "", ErrNil, "none", 0)
     /\ UNCHANGED <<mongo, mem, gated, lifetime, isTransient, now, goVars>>

\* Set, but a missing key is inserted.
SetUpsert(key, value) ==
  LET g == Swept
      ok == Has(g.values, key)
  IN /\ values' = IF ok
                  THEN MapPut(g.values, key, Renew(SetValue(g.values[key], value)))
                  ELSE MapPut(g.values, key, NewMemData(lifetime, value, now))
     /\ lastgc' = g.lastgc
     /\ ret' = Result("Set", key, IF ok THEN ErrNil ELSE InvalidKeyError,
                      "none", 0)
     /\ UNCHANGED <<mongo, mem, gated, lifetime, isTransient, now, goVars>>

\* Store.Set
Set(key, value) ==
  LET g == Swept
      ok == Has(g.values, key)
  IN /\ values' = IF ok
                  THEN MapPut(g.values, key, Renew(SetValue(g.values[key], value)))
                  ELSE g.values
     /\ lastgc' = g.lastgc
     /\ ret' = Result("Set", key, IF ok THEN ErrNil ELSE InvalidKeyError,
                      "none", 0)
     /\ UNCHANGED <<mongo, mem, gated, lifetime, isTransient, now, goVars>>

\* SetLifetime, but ScopeNewAndUpdated rewrites the entries as ScopeAll does.
SetLifetimeRetro(d, scope) ==
  LET g == Swept
      ok == scope \in {ScopeAll, ScopeNewAndUpdated}
  IN /\ values' = IF ok
                  THEN [k \in DOMAIN g.values |-> EntrySetLifetime(g.values[k], d)]
                  ELSE values
     /\ lastgc' = IF ok THEN g.lastgc ELSE lastgc
     /\ lifetime' = IF ok THEN d ELSE lifetime
     /\ ret' = Result("SetLifetime", "", IF ok THEN ErrNil ELSE NotSupportedError,
                      "none", 0)
     /\ UNCHANGED <<mongo, mem, gated, isTransient, now, goVars>>

\* SetLifetime, but the default lifetime is stored for every scope.
SetLifetimeAnyScope(d, scope) ==
  LET g == Swept
      ok == scope \in {ScopeAll, ScopeNewAndUpdated}
  IN /\ values' = IF scope = ScopeAll
                  THEN [k \in DOMAIN g.values |-> EntrySetLifetime(g.values[k], d)]
                  ELSE values
     /\ lastgc' = IF scope = ScopeAll THEN g.lastgc ELSE lastgc
     /\ lifetime' = d
     /\ ret' = Result("SetLifetime", "", IF ok THEN ErrNil ELSE NotSupportedError,
                      "none", 0)
     /\ UNCHANGED <<mongo, mem, gated, isTransient, now, goVars>>

\* Store.SetLifetime
SetLifetime(d, scope) ==
  LET g == Swept
      ok == scope \in {ScopeAll, ScopeNewAndUpdated}
  IN /\ values' = IF scope = ScopeAll
                  THEN [k \in DOMAIN g.values |-> EntrySetLifetime(g.values[k], d)]
                  ELSE values
     /\ lastgc' = IF scope = ScopeAll THEN g.lastgc ELSE lastgc
     /\ lifetime' = IF ok THEN d ELSE lifetime
     /\ ret' = Result("SetLifetime", "", IF ok THEN ErrNil ELSE NotSupportedError,
                      "none", 0)
     /\ UNCHANGED <<mongo, mem, gated, isTransient, now, goVars>>

\* SetTransient, but every entry is renewed when the flag is cleared.
SetTransientHit(value) ==
  /\ isTransient' = value
  /\ values' = IF value THEN values
               ELSE [k \in DOMAIN values |-> Hit(values[k], now)]
  /\ ret' = Result("SetTransient", "", ErrNil, "none", 0)
  /\ UNCHANGED <<mongo, mem, gated, lifetime, lastgc, now, goVars>>

\* Store.SetTransient
SetTransient(value) ==
  /\ isTransient' = value
  /\ ret' = Result("SetTransient", "", ErrNil, "none", 0)
  /\ UNCHANGED <<mongo, mem, gated, values, lifetime, lastgc, now, goVars>>

\* The clock advances between calls.
Tick ==
  /\ now < MaxTime
  /\ now' = now + 1
  /\ UNCHANGED <<storeVars, ret, goVars>>

\* ------------------------------------------------------------ goroutines
Workers == {"g1", "g2"}

Main == "main"

Goroutines == Workers \cup {Main}

\* The locals of a call: its arguments (op, key, value, dst, d, scope), the
\* sweep's writeLocked, the keys its range has still to produce (todo), the
\* key i at hand (cur), whether the map it ranges over has been replaced by
\* Flush since the range began (old), the LockStatus the sweep returned
\* (status), Add's data, the results (err, n), and the number of entries
\* that the deletes of its sweep have taken out of the map (removed).
NoLocals ==
  [op |-> "", key |-> "", value |-> "nil", status |-> Unlocked, todo |-> {},
   cur |-> "", writeLocked |-> FALSE, data |-> NewMemData(0, "nil", 0),
   err |-> ErrNil, n |-> 0,
   dst |-> [kind |-> "nonptr", elem |-> "none", old |-> "none"],
   d |-> 0, scope |-> ScopeAll, transient |-> FALSE, old |-> FALSE,
   removed |-> 0]

\* sync.RWMutex: w is the goroutine that holds the writers' inner mutex (it
\* has called Lock and blocks new readers), held whether it has the lock in
\* write mode, readers the goroutines that have it in read mode.
FreeMutex == [w |-> "", held |-> FALSE, readers |-> {}]

\* RLock returns.
RLock(g) ==
  /\ mutex.w = ""
  /\ mutex' = [mutex EXCEPT !.readers = @ \cup {g}]

RUnlock(g) == mutex' = [mutex EXCEPT !.readers = @ \ {g}]

\* Lock: the caller takes the writers' inner mutex and stops new readers.
LockAnnounce(g) ==
  /\ mutex.w = ""
  /\ mutex' = [mutex EXCEPT !.w = g]

\* Lock returns once the readers have left.
LockAcquire(g) ==
  /\ mutex.w = g
  /\ mutex.readers = {}
  /\ mutex' = [mutex EXCEPT !.held = TRUE]

Unlock(g) == mutex' = [mutex EXCEPT !.w = "", !.held = FALSE]

\* Where a call goes on when its sweep has returned status.  Store switches
\* on the three states; MemStore, whose sweep is never skipped, tests for
\* one state and takes the other for granted, builds Add's data before the
\* lock is upgraded and reads Count's length before the deferred unlock.
AfterGc(op, status) ==
  CASE op = "Add" /\ ~gated -> "add_data"
    [] op = "Add" /\ gated /\ status = ReadLocked -> "add_runlock"
    [] op = "Add" /\ gated /\ status = Unlocked -> "add_lock"
    [] op = "Add" /\ gated /\ status = WriteLocked -> "add_body"
    [] op = "Count" /\ ~gated -> "count_len"
    [] op = "Count" /\ gated /\ status = WriteLocked -> "count_unlock"
    [] op = "Count" /\ gated /\ status = ReadLocked -> "count_runlock"
    [] op = "Count" /\ gated /\ status = Unlocked -> "count_len"
    [] op = "Delete" -> "delete_get"
    [] op = "GC" /\ status = ReadLocked -> "gc_op_runlock"
    [] op = "GC" /\ status = WriteLocked -> "gc_op_unlock"
    [] op = "GC" /\ status = Unlocked -> IF gated THEN "done" ELSE "gc_op_unlock"
    [] op \in {"Get", "Set", "SetLifetime"} /\ status = WriteLocked -> "rd_unlock"
    [] op \in {"Get", "Set", "SetLifetime"} /\ status = Unlocked ->
         IF gated THEN "rd_rlock" ELSE "rd_body"
    [] op \in {"Get", "Set", "SetLifetime"} /\ status = ReadLocked -> "rd_body"

\* A goroutine in the range loop of its sweep.
InRange(g) == pc[g] \in {"gc_range", "gc_runlock", "gc_lock", "gc_lockwait"}

\* The goroutines other than g whose range is under way over the map that
\* s.values holds now.
Ranging(g) == {h \in Goroutines \ {g} : InRange(h) /\ ~loc[h].old}

\* Another goroutine is about to store lastgc while g reads it: the read
\* races with the store.
LastgcRace(g) == \E h \in Goroutines \ {g} : pc[h] = "gc_stamp"

\* A goroutine calls Add(key, value), Set(key, value), Delete(key), Count()
\* or GC(): each begins with the sweep.
Call(g, op, key, value) ==
  /\ pc[g] = "idle"
  /\ pc' = [pc EXCEPT ![g] = "gc"]
  /\ loc' = [loc EXCEPT ![g] = [NoLocals EXCEPT !.op = op, !.key = key,
                                                !.value = value]]
  /\ UNCHANGED <<storeVars, now, ret, mutex>>

\* A goroutine calls Get(key, dst).
CallGet(g, key, dst) ==
  /\ pc[g] = "idle"
  /\ pc' = [pc EXCEPT ![g] = "gc"]
  /\ loc' = [loc EXCEPT ![g] = [NoLocals EXCEPT !.op = "Get", !.key = key,
                                                !.dst = dst]]
  /\ UNCHANGED <<storeVars, now, ret, mutex>>

\* A goroutine calls Flush(): no sweep.
CallFlush(g) ==
  /\ pc[g] = "idle"
  /\ pc' = [pc EXCEPT ![g] = "flush_lock"]
  /\ loc' = [loc EXCEPT ![g] = [NoLocals EXCEPT !.op = "Flush"]]
  /\ UNCHANGED <<storeVars, now, ret, mutex>>

\* A goroutine calls SetLifetime(d, scope): the sweep for ScopeAll, the read
\* lock at once for ScopeNewAndUpdated, NotSupportedError for the rest.
CallSetLifetime(g, d, scope) ==
  /\ pc[g] = "idle"
  /\ pc' = [pc EXCEPT ![g] =
              CASE scope = ScopeAll -> "gc"
                [] scope = ScopeNewAndUpdated -> "rd_rlock"
                [] OTHER -> "done"]
  /\ loc' = [loc EXCEPT ![g] =
               [NoLocals EXCEPT !.op = "SetLifetime", !.d = d, !.scope = scope,
                                !.err = IF scope \in {ScopeAll, ScopeNewAndUpdated}
                                        THEN ErrNil ELSE NotSupportedError]]
  /\ UNCHANGED <<storeVars, now, ret, mutex>>

\* A goroutine calls SetTransient(value): no sweep.
CallSetTransient(g, value) ==
  /\ pc[g] = "idle"
  /\ pc' = [pc EXCEPT ![g] = "rd_rlock"]
  /\ loc' = [loc EXCEPT ![g] = [NoLocals EXCEPT !.op = "SetTransient",
                                                !.transient = value]]
  /\ UNCHANGED <<storeVars, now, ret, mutex>>

\* Store.gc: the gate.  A read of lastgc that races with a store of it may
\* decide either way.  MemStore.gc has no gate and no lastgc.
GcGate(g) ==
  /\ pc[g] = "gc"
  /\ \E skip \in BOOLEAN :
       /\ IF gated THEN skip = GateSkips(lifetime, lastgc, now) \/ LastgcRace(g)
          ELSE ~skip
       /\ IF skip
          THEN /\ pc' = [pc EXCEPT ![g] = AfterGc(loc[g].op, Unlocked)]
               /\ loc' = [loc EXCEPT ![g].status = Unlocked]
          ELSE /\ pc' = [pc EXCEPT ![g] = IF gated THEN "gc_stamp" ELSE "gc_rlock"]
               /\ loc' = loc
  /\ UNCHANGED <<storeVars, now, ret, mutex>>

\* Store.gc: s.lastgc = time.Now()
GcStamp(g) ==
  /\ pc[g] = "gc_stamp"
  /\ lastgc' = now
  /\ pc' = [pc EXCEPT ![g] = "gc_rlock"]
  /\ UNCHANGED <<mongo, mem, gated, values, lifetime, isTransient, now, ret, mutex, loc>>

\* Store.gc: s.mutex.RLock() and the start of the range over s.values.
GcRLock(g) ==
  /\ pc[g] = "gc_rlock"
  /\ RLock(g)
  /\ loc' = [loc EXCEPT ![g].todo = DOMAIN values, ![g].writeLocked = FALSE,
                        ![g].old = FALSE, ![g].removed = 0]
  /\ pc' = [pc EXCEPT ![g] = "gc_range"]
  /\ UNCHANGED <<storeVars, now, ret>>

\* The range loop, but it deletes the entries that are not expired.
GcRangeInverted(g) ==
  /\ pc[g] = "gc_range"
  /\ IF loc[g].todo = {}
     THEN /\ pc' = [pc EXCEPT ![g] =
                      AfterGc(loc[g].op,
                              IF loc[g].writeLocked THEN WriteLocked
                              ELSE ReadLocked)]
          /\ loc' = [loc EXCEPT ![g].status =
                       IF loc[g].writeLocked THEN WriteLocked ELSE ReadLocked]
          /\ values' = values
     ELSE \E i \in loc[g].todo :
            IF ~Has(values, i)
            THEN /\ pc' = [pc EXCEPT ![g] = "panic"]
                 /\ loc' = [loc EXCEPT ![g].todo = @ \ {i}, ![g].err = Panic]
                 /\ values' = values
            ELSE IF IsExpired(values[i], now)
            THEN /\ pc' = pc
                 /\ loc' = [loc EXCEPT ![g].todo = @ \ {i}]
                 /\ values' = values
            ELSE IF loc[g].writeLocked
            THEN /\ pc' = pc
                 /\ loc' = [h \in Goroutines |->
                              IF h = g
                              THEN [loc[h] EXCEPT !.todo = @ \ {i},
                                                  !.removed = @ + 1]
                              ELSE IF h \in Ranging(g)
                              THEN [loc[h] EXCEPT !.todo = @ \ {i}]
                              ELSE loc[h]]
                 /\ values' = MapDelete(values, i)
            ELSE /\ pc' = [pc EXCEPT ![g] = "gc_runlock"]
                 /\ loc' = [loc EXCEPT ![g].todo = @ \ {i}, ![g].cur = i]
                 /\ values' = values
  /\ UNCHANGED <<mongo, mem, gated, lifetime, isTransient, lastgc, now, ret, mutex>>

\* The range loop, but the sweep returns dot.ReadLocked whether or not it has
\* upgraded the lock.
GcRangeReturnsRead(g) ==
  /\ pc[g] = "gc_range"
  /\ IF loc[g].todo = {}
     THEN /\ pc' = [pc EXCEPT ![g] = AfterGc(loc[g].op, ReadLocked)]
          /\ loc' = [loc EXCEPT ![g].status = ReadLocked]
          /\ values' = values
     ELSE \E i \in loc[g].todo :
            IF ~Has(values, i)
            THEN /\ pc' = [pc EXCEPT ![g] = "panic"]
                 /\ loc' = [loc EXCEPT ![g].todo = @ \ {i}, ![g].err = Panic]
                 /\ values' = values
            ELSE IF ~IsExpired(values[i], now)
            THEN /\ pc' = pc
                 /\ loc' = [loc EXCEPT ![g].todo = @ \ {i}]
                 /\ values' = values
            ELSE IF loc[g].writeLocked
            THEN /\ pc' = pc
                 /\ loc' = [h \in Goroutines |->
                              IF h = g
                              THEN [loc[h] EXCEPT !.todo = @ \ {i},
                                                  !.removed = @ + 1]
                              ELSE IF h \in Ranging(g)
                              THEN [loc[h] EXCEPT !.todo = @ \ {i}]
                              ELSE loc[h]]
                 /\ values' = MapDelete(values, i)
            ELSE /\ pc' = [pc EXCEPT ![g] = "gc_runlock"]
                 /\ loc' = [loc EXCEPT ![g].todo = @ \ {i}, ![g].cur = i]
                 /\ values' = values
  /\ UNCHANGED <<mongo, mem, gated, lifetime, isTransient, lastgc, now, ret, mutex>>

\* The range loop without its test of writeLocked: the lock is upgraded at
\* every expired entry.
GcRangeUpgradeEach(g) ==
  /\ pc[g] = "gc_range"
  /\ IF loc[g].todo = {}
     THEN /\ pc' = [pc EXCEPT ![g] =
                      AfterGc(loc[g].op,
                              IF loc[g].writeLocked THEN WriteLocked
                              ELSE ReadLocked)]
          /\ loc' = [loc EXCEPT ![g].status =
                       IF loc[g].writeLocked THEN WriteLocked ELSE ReadLocked]
          /\ values' = values
     ELSE \E i \in loc[g].todo :
            IF ~Has(values, i)
            THEN /\ pc' = [pc EXCEPT ![g] = "panic"]
                 /\ loc' = [loc EXCEPT ![g].todo = @ \ {i}, ![g].err = Panic]
                 /\ values' = values
            ELSE IF ~IsExpired(values[i], now)
            THEN /\ pc' = pc
                 /\ loc' = [loc EXCEPT ![g].todo = @ \ {i}]
                 /\ values' = values
            ELSE /\ pc' = [pc EXCEPT ![g] = "gc_runlock"]
                 /\ loc' = [loc EXCEPT ![g].todo = @ \ {i}, ![g].cur = i]
                 /\ values' = values
  /\ UNCHANGED <<mongo, mem, gated, lifetime, isTransient, lastgc, now, ret, mutex>>

\* Store.gc: one turn of the range loop.  The range produces a key i it has
\* not produced yet; s.values[i].IsExpired() panics when the map has no
\* entry under i; an expired entry is deleted at once when the sweep has
\* the write lock and after the upgrade otherwise.  When the range is
\* exhausted the sweep returns.
GcRange(g) ==
  /\ pc[g] = "gc_range"
  /\ IF loc[g].todo = {}
     THEN /\ pc' = [pc EXCEPT ![g] =
                      AfterGc(loc[g].op,
                              IF loc[g].writeLocked THEN WriteLocked
                              ELSE ReadLocked)]
          /\ loc' = [loc EXCEPT ![g].status =
                       IF loc[g].writeLocked THEN WriteLocked ELSE ReadLocked]
          /\ values' = values
     ELSE \E i \in loc[g].todo :
            IF ~Has(values, i)
            THEN /\ pc' = [pc EXCEPT ![g] = "panic"]
                 /\ loc' = [loc EXCEPT ![g].todo = @ \ {i}, ![g].err = Panic]
                 /\ values' = values
            ELSE IF ~IsExpired(values[i], now)
            THEN /\ pc' = pc
                 /\ loc' = [loc EXCEPT ![g].todo = @ \ {i}]
                 /\ values' = values
            ELSE IF loc[g].writeLocked
            THEN /\ pc' = pc
                 /\ loc' = [h \in Goroutines |->
                              IF h = g
                              THEN [loc[h] EXCEPT !.todo = @ \ {i},
                                                  !.removed = @ + 1]
                              ELSE IF h \in Ranging(g)
                              THEN [loc[h] EXCEPT !.todo = @ \ {i}]
                              ELSE loc[h]]
                 /\ values' = MapDelete(values, i)
            ELSE /\ pc' = [pc EXCEPT ![g] = "gc_runlock"]
                 /\ loc' = [loc EXCEPT ![g].todo = @ \ {i}, ![g].cur = i]
                 /\ values' = values
  /\ UNCHANGED <<mongo, mem, gated, lifetime, isTransient, lastgc, now, ret, mutex>>

\* Store.gc, the upgrade: s.mutex.RUnlock()
GcRUnlock(g) ==
  /\ pc[g] = "gc_runlock"
  /\ RUnlock(g)
  /\ pc' = [pc EXCEPT ![g] = "gc_lock"]
  /\ UNCHANGED <<storeVars, now, ret, loc>>

\* Store.gc, the upgrade: s.mutex.Lock() is called
GcLock(g) ==
  /\ pc[g] = "gc_lock"
  /\ LockAnnounce(g)
  /\ pc' = [pc EXCEPT ![g] = "gc_lockwait"]
  /\ UNCHANGED <<storeVars, now, ret, loc>>

\* Store.gc, the upgrade: s.mutex.Lock() returns, writeLocked = true, and
\* delete(s.values, i) for the key at hand.
GcLockWait(g) ==
  /\ pc[g] = "gc_lockwait"
  /\ LockAcquire(g)
  /\ values' = MapDelete(values, loc[g].cur)
  /\ loc' = [h \in Goroutines |->
               IF h = g
               THEN [loc[h] EXCEPT !.writeLocked = TRUE,
                                   !.removed = IF Has(values, loc[g].cur)
                                               THEN @ + 1 ELSE @]
               ELSE IF h \in Ranging(g)
               THEN [loc[h] EXCEPT !.todo = @ \ {loc[g].cur}]
               ELSE loc[h]]
  /\ pc' = [pc EXCEPT ![g] = "gc_range"]
  /\ UNCHANGED <<mongo, mem, gated, lifetime, isTransient, lastgc, now, ret>>

\* MemStore.Add: data := NewMemData(s.lifetime, value), before the lock is
\* adapted.
AddData(g) ==
  /\ pc[g] = "add_data"
  /\ loc' = [loc EXCEPT ![g].data = NewMemData(lifetime, loc[g].value, now)]
  /\ pc' = [pc EXCEPT ![g] = IF loc[g].status = ReadLocked THEN "add_runlock"
                             ELSE "add_body"]
  /\ UNCHANGED <<storeVars, now, ret, mutex>>

\* Add's upgrade without the RUnlock: Lock is called with the read lock held.
AddRUnlockKeeps(g) ==
  /\ pc[g] = "add_runlock"
  /\ pc' = [pc EXCEPT ![g] = "add_lock"]
  /\ UNCHANGED <<storeVars, now, ret, loc, mutex>>

\* Store.Add, case dot.ReadLocked: s.mutex.RUnlock()
AddRUnlock(g) ==
  /\ pc[g] = "add_runlock"
  /\ RUnlock(g)
  /\ pc' = [pc EXCEPT ![g] = "add_lock"]
  /\ UNCHANGED <<storeVars, now, ret, loc>>

\* Store.Add: s.mutex.Lock() is called
AddLock(g) ==
  /\ pc[g] = "add_lock"
  /\ LockAnnounce(g)
  /\ pc' = [pc EXCEPT ![g] = "add_lockwait"]
  /\ UNCHANGED <<storeVars, now, ret, loc>>

\* Store.Add: s.mutex.Lock() returns
AddLockWait(g) ==
  /\ pc[g] = "add_lockwait"
  /\ LockAcquire(g)
  /\ pc' = [pc EXCEPT ![g] = "add_body"]
  /\ UNCHANGED <<storeVars, now, ret, loc>>

\* Add's body without the existence check: the entry is stored whether or
\* not the key is there.
AddBodyNoCheck(g) ==
  /\ pc[g] = "add_body"
  /\ LET data == IF gated THEN NewMemData(lifetime, loc[g].value, now)
                 ELSE loc[g].data
         key == loc[g].key
     IN /\ values' = MapPut(values, key, data)
        /\ \E seen \in SUBSET Ranging(g) :
             loc' = [h \in Goroutines |->
                       IF h = g
                       THEN [loc[h] EXCEPT !.data = data, !.err = ErrNil]
                       ELSE IF h \in seen
                       THEN [loc[h] EXCEPT !.todo = @ \cup {key}]
                       ELSE loc[h]]
  /\ pc' = [pc EXCEPT ![g] = "add_unlock"]
  /\ UNCHANGED <<mongo, mem, gated, lifetime, isTransient, lastgc, now, ret, mutex>>

\* Store.Add under the write lock: NewMemData (MemStore has built it
\* already), the existence check and the insert.  A range that another
\* goroutine has under way over the map may or may not produce the inserted
\* key.
AddBody(g) ==
  /\ pc[g] = "add_body"
  /\ LET data == IF gated THEN NewMemData(lifetime, loc[g].value, now)
                 ELSE loc[g].data
         key == loc[g].key
     IN IF Has(values, key)
        THEN /\ values' = values
             /\ loc' = [loc EXCEPT ![g].data = data,
                                   ![g].err = DuplicatedKeyError]
        ELSE /\ values' = MapPut(values, key, data)
             /\ \E seen \in SUBSET Ranging(g) :
                  loc' = [h \in Goroutines |->
                            IF h = g
                            THEN [loc[h] EXCEPT !.data = data, !.err = ErrNil]
                            ELSE IF h \in seen
                            THEN [loc[h] EXCEPT !.todo = @ \cup {key}]
                            ELSE loc[h]]
  /\ pc' = [pc EXCEPT ![g] = "add_unlock"]
  /\ UNCHANGED <<mongo, mem, gated, lifetime, isTransient, lastgc, now, ret, mutex>>

\* Store.Add: the deferred s.mutex.Unlock()
AddUnlock(g) ==
  /\ pc[g] = "add_unlock"
  /\ Unlock(g)
  /\ pc' = [pc EXCEPT ![g] = "done"]
  /\ UNCHANGED <<storeVars, now, ret, loc>>

\* Store.Count, case dot.WriteLocked: s.mutex.Unlock(); in MemStore.Count
\* the Unlock is deferred.
CountUnlock(g) ==
  /\ pc[g] = "count_unlock"
  /\ Unlock(g)
  /\ pc' = [pc EXCEPT ![g] = IF gated THEN "count_len" ELSE "done"]
  /\ UNCHANGED <<storeVars, now, ret, loc>>

\* Store.Count, case dot.ReadLocked: s.mutex.RUnlock(); in MemStore.Count
\* the RUnlock is deferred.
CountRUnlock(g) ==
  /\ pc[g] = "count_runlock"
  /\ RUnlock(g)
  /\ pc' = [pc EXCEPT ![g] = IF gated THEN "count_len" ELSE "done"]
  /\ UNCHANGED <<storeVars, now, ret, loc>>

\* Store.Count: return len(s.values), nil
CountLen(g) ==
  /\ pc[g] = "count_len"
  /\ loc' = [loc EXCEPT ![g].n = Cardinality(DOMAIN values)]
  /\ pc' = [pc EXCEPT ![g] =
              IF gated THEN "done"
              ELSE IF loc[g].status = WriteLocked THEN "count_unlock"
              ELSE "count_runlock"]
  /\ UNCHANGED <<storeVars, now, ret, mutex>>

\* MemStore.Delete's error path run on a sweep that can return Unlocked:
\* every state but WriteLocked is taken for ReadLocked.
DeleteGetElse(g) ==
  /\ pc[g] = "delete_get"
  /\ IF Has(values, loc[g].key)
     THEN /\ pc' = [pc EXCEPT ![g] =
                      CASE loc[g].status = ReadLocked -> "delete_runlock"
                        [] loc[g].status = Unlocked -> "delete_lock"
                        [] loc[g].status = WriteLocked -> "delete_body"]
          /\ loc' = loc
     ELSE /\ pc' = [pc EXCEPT ![g] =
                      IF loc[g].status = WriteLocked THEN "delete_err_unlock"
                      ELSE "delete_err_runlock"]
          /\ loc' = [loc EXCEPT ![g].err = InvalidKeyError]
  /\ UNCHANGED <<storeVars, now, ret, mutex>>

\* Store.Delete without the case dot.Unlocked of its second switch: after a
\* skipped sweep the entry is deleted with no lock taken.
DeleteGetNoLock(g) ==
  /\ pc[g] = "delete_get"
  /\ IF Has(values, loc[g].key)
     THEN /\ pc' = [pc EXCEPT ![g] =
                      CASE loc[g].status = ReadLocked -> "delete_runlock"
                        [] OTHER -> "delete_body"]
          /\ loc' = loc
     ELSE /\ pc' = [pc EXCEPT ![g] =
                      CASE loc[g].status = WriteLocked -> "delete_err_unlock"
                        [] loc[g].status = ReadLocked -> "delete_err_runlock"
                        [] OTHER -> IF gated THEN "done" ELSE "delete_err_runlock"]
          /\ loc' = [loc EXCEPT ![g].err = InvalidKeyError]
  /\ UNCHANGED <<storeVars, now, ret, mutex>>

\* Store.Delete: _, err := s.unsafeGet(key) and the two switches on
\* lckStatus.  MemStore.Delete tests for one state and takes the other for
\* granted.
DeleteGet(g) ==
  /\ pc[g] = "delete_get"
  /\ IF Has(values, loc[g].key)
     THEN /\ pc' = [pc EXCEPT ![g] =
                      CASE loc[g].status = ReadLocked -> "delete_runlock"
                        [] loc[g].status = Unlocked /\ gated -> "delete_lock"
                        [] OTHER -> "delete_body"]
          /\ loc' = loc
     ELSE /\ pc' = [pc EXCEPT ![g] =
                      CASE loc[g].status = WriteLocked -> "delete_err_unlock"
                        [] loc[g].status = ReadLocked -> "delete_err_runlock"
                        [] OTHER -> IF gated THEN "done" ELSE "delete_err_runlock"]
          /\ loc' = [loc EXCEPT ![g].err = InvalidKeyError]
  /\ UNCHANGED <<storeVars, now, ret, mutex>>

\* Store.Delete, err != nil, case dot.WriteLocked: s.mutex.Unlock()
DeleteErrUnlock(g) ==
  /\ pc[g] = "delete_err_unlock"
  /\ Unlock(g)
  /\ pc' = [pc EXCEPT ![g] = "done"]
  /\ UNCHANGED <<storeVars, now, ret, loc>>

\* Store.Delete, err != nil, case dot.ReadLocked: s.mutex.RUnlock()
DeleteErrRUnlock(g) ==
  /\ pc[g] = "delete_err_runlock"
  /\ RUnlock(g)
  /\ pc' = [pc EXCEPT ![g] = "done"]
  /\ UNCHANGED <<storeVars, now, ret, loc>>

\* Store.Delete, case dot.ReadLocked: s.mutex.RUnlock()
DeleteRUnlock(g) ==
  /\ pc[g] = "delete_runlock"
  /\ RUnlock(g)
  /\ pc' = [pc EXCEPT ![g] = "delete_lock"]
  /\ UNCHANGED <<storeVars, now, ret, loc>>

\* Store.Delete: s.mutex.Lock() is called
DeleteLock(g) ==
  /\ pc[g] = "delete_lock"
  /\ LockAnnounce(g)
  /\ pc' = [pc EXCEPT ![g] = "delete_lockwait"]
  /\ UNCHANGED <<storeVars, now, ret, loc>>

\* Store.Delete: s.mutex.Lock() returns
DeleteLockWait(g) ==
  /\ pc[g] = "delete_lockwait"
  /\ LockAcquire(g)
  /\ pc' = [pc EXCEPT ![g] = "delete_body"]
  /\ UNCHANGED <<storeVars, now, ret, loc>>

\* Store.Delete: delete(s.values, key); return nil
DeleteBody(g) ==
  /\ pc[g] = "delete_body"
  /\ values' = MapDelete(values, loc[g].key)
  /\ loc' = [h \in Goroutines |->
               IF h \in Ranging(g)
               THEN [loc[h] EXCEPT !.todo = @ \ {loc[g].key}]
               ELSE loc[h]]
  /\ pc' = [pc EXCEPT ![g] = "delete_unlock"]
  /\ UNCHANGED <<mongo, mem, gated, lifetime, isTransient, lastgc, now, ret, mutex>>

\* Store.Delete: the deferred s.mutex.Unlock()
DeleteUnlock(g) ==
  /\ pc[g] = "delete_unlock"
  /\ Unlock(g)
  /\ pc' = [pc EXCEPT ![g] = "done"]
  /\ UNCHANGED <<storeVars, now, ret, loc>>

\* Store.Flush: s.mutex.Lock() is called
FlushLock(g) ==
  /\ pc[g] = "flush_lock"
  /\ LockAnnounce(g)
  /\ pc' = [pc EXCEPT ![g] = "flush_lockwait"]
  /\ UNCHANGED <<storeVars, now, ret, loc>>

\* Store.Flush: s.mutex.Lock() returns and s.values = make(map[string]Data).
\* A range that another goroutine began over the replaced map goes on over
\* that map.
FlushLockWait(g) ==
  /\ pc[g] = "flush_lockwait"
  /\ LockAcquire(g)
  /\ values' = EmptyMap
  /\ loc' = [h \in Goroutines |->
               IF h \in Ranging(g) THEN [loc[h] EXCEPT !.old = TRUE]
               ELSE loc[h]]
  /\ pc' = [pc EXCEPT ![g] = "flush_unlock"]
  /\ UNCHANGED <<mongo, mem, gated, lifetime, isTransient, lastgc, now, ret>>

\* Store.Flush: the deferred s.mutex.Unlock()
FlushUnlock(g) ==
  /\ pc[g] = "flush_unlock"
  /\ Unlock(g)
  /\ pc' = [pc EXCEPT ![g] = "done"]
  /\ UNCHANGED <<storeVars, now, ret, loc>>

\* Store.GC, case dot.ReadLocked: s.mutex.RUnlock()
PublicGCRUnlock(g) ==
  /\ pc[g] = "gc_op_runlock"
  /\ RUnlock(g)
  /\ pc' = [pc EXCEPT ![g] = "done"]
  /\ UNCHANGED <<storeVars, now, ret, loc>>

\* Store.GC, case dot.WriteLocked: s.mutex.Unlock()
PublicGCUnlock(g) ==
  /\ pc[g] = "gc_op_unlock"
  /\ Unlock(g)
  /\ pc' = [pc EXCEPT ![g] = "done"]
  /\ UNCHANGED <<storeVars, now, ret, loc>>

\* Store.Get, Set and SetLifetime(ScopeAll), case dot.WriteLocked:
\* s.mutex.Unlock()
ReadUnlock(g) ==
  /\ pc[g] = "rd_unlock"
  /\ Unlock(g)
  /\ pc' = [pc EXCEPT ![g] = "rd_rlock"]
  /\ UNCHANGED <<storeVars, now, ret, loc>>

\* Store.Get, Set, SetLifetime and SetTransient: s.mutex.RLock()
ReadRLock(g) ==
  /\ pc[g] = "rd_rlock"
  /\ RLock(g)
  /\ pc' = [pc EXCEPT ![g] = "rd_body"]
  /\ UNCHANGED <<storeVars, now, ret, loc>>

\* Store.Get after the lock is adapted: unsafeGet, the renewal and setValue.
GetBody(g) ==
  /\ pc[g] = "rd_body"
  /\ loc[g].op = "Get"
  /\ LET key == loc[g].key
     IN IF Has(values, key)
        THEN /\ values' = MapPut(values, key, Renew(values[key]))
             /\ loc' = [loc EXCEPT ![g].err =
                          setValue(values[key].value, loc[g].dst).err]
        ELSE /\ values' = values
             /\ loc' = [loc EXCEPT ![g].err = InvalidKeyError]
  /\ pc' = [pc EXCEPT ![g] = "rd_runlock"]
  /\ UNCHANGED <<mongo, mem, gated, lifetime, isTransient, lastgc, now, ret, mutex>>

\* Store.Set after the lock is adapted: unsafeGet, SetValue and the renewal.
SetBody(g) ==
  /\ pc[g] = "rd_body"
  /\ loc[g].op = "Set"
  /\ LET key == loc[g].key
     IN IF Has(values, key)
        THEN /\ values' = MapPut(values, key,
                                 Renew(SetValue(values[key], loc[g].value)))
             /\ loc' = loc
        ELSE /\ values' = values
             /\ loc' = [loc EXCEPT ![g].err = InvalidKeyError]
  /\ pc' = [pc EXCEPT ![g] = "rd_runlock"]
  /\ UNCHANGED <<mongo, mem, gated, lifetime, isTransient, lastgc, now, ret, mutex>>

\* Store.SetLifetime under the read lock: for ScopeAll v.SetLifetime(d) on
\* every entry; then s.lifetime = d.
SetLifetimeBody(g) ==
  /\ pc[g] = "rd_body"
  /\ loc[g].op = "SetLifetime"
  /\ values' = IF loc[g].scope = ScopeAll
               THEN [k \in DOMAIN values |-> EntrySetLifetime(values[k], loc[g].d)]
               ELSE values
  /\ lifetime' = loc[g].d
  /\ pc' = [pc EXCEPT ![g] = "rd_runlock"]
  /\ UNCHANGED <<mongo, mem, gated, isTransient, lastgc, now, ret, mutex, loc>>

\* Store.SetTransient under the read lock: s.isTransient = value
SetTransientBody(g) ==
  /\ pc[g] = "rd_body"
  /\ loc[g].op = "SetTransient"
  /\ isTransient' = loc[g].transient
  /\ pc' = [pc EXCEPT ![g] = "rd_runlock"]
  /\ UNCHANGED <<mongo, mem, gated, values, lifetime, lastgc, now, ret, mutex, loc>>

\* Store.Get, Set, SetLifetime and SetTransient: the deferred
\* s.mutex.RUnlock(); a panic of setValue goes on to the caller after it.
ReadRUnlock(g) ==
  /\ pc[g] = "rd_runlock"
  /\ RUnlock(g)
  /\ pc' = [pc EXCEPT ![g] = "done"]
  /\ UNCHANGED <<storeVars, now, ret, loc>>

\* ------------------------------------------------------------------ Spec
\* The MemStore at the side, freshly constructed.
NoMem == [values |-> EmptyMap, ret |-> Result("New", "", ErrNil, "none", 0)]

\* No MongoStore has been constructed.
NoMongo ==
  [col |-> EmptyMap, lifetime |-> 0, isTransient |-> FALSE,
   ensureAccuracy |-> FALSE, expireAfter |-> 0]

\* New(d, isTransient)
New(d, transient) ==
  /\ values = EmptyMap
  /\ lifetime = d
  /\ isTransient = transient
  /\ lastgc = ZeroTime
  /\ gated = TRUE
  /\ now = 0
  /\ ret = Result("New", "", ErrNil, "none", 0)
  /\ mutex = FreeMutex
  /\ pc = [g \in Goroutines |-> "idle"]
  /\ loc = [g \in Goroutines |-> NoLocals]
  /\ mem = NoMem
  /\ mongo = NoMongo

\* NewCacheStore(d) and NewTransientStore(d): a MemStore.
NewMemStore(d, transient) ==
  /\ values = EmptyMap
  /\ lifetime = d
  /\ isTransient = transient
  /\ lastgc = ZeroTime
  /\ gated = FALSE
  /\ now = 0
  /\ ret = Result("New", "", ErrNil, "none", 0)
  /\ mutex = FreeMutex
  /\ pc = [g \in Goroutines |-> "idle"]
  /\ loc = [g \in Goroutines |-> NoLocals]
  /\ mem = NoMem
  /\ mongo = NoMongo

Init == \E d \in Durations, transient \in BOOLEAN : New(d, transient)

Next ==
  \/ \E key \in Keys, value \in Values : Add(key, value)
  \/ Count
  \/ \E key \in Keys : Delete(key)
  \/ Flush
  \/ \E key \in Keys, dst \in Dsts : Get(key, dst)
  \/ GC
  \/ \E key \in Keys, value \in Values : Set(key, value)
  \/ \E d \in Durations, scope \in Scopes : SetLifetime(d, scope)
  \/ \E value \in BOOLEAN : SetTransient(value)
  \/ Tick

Spec == Init /\ [][Next]_vars

\* --------------------------------------------------------------- SpecAdd
\* The key each worker adds: pairwise distinct.
KeyOf(g) == IF g = "g1" THEN "k1" ELSE "k2"

\* The workers each call Add once, on their own key, concurrently; when all
\* have returned the main goroutine calls Count.
NextAdd ==
  \/ \E g \in Workers, value \in Values : Call(g, "Add", KeyOf(g), value)
  \/ /\ \A g \in Workers : pc[g] = "done"
     /\ Call(Main, "Count", "", "nil")
  \/ \E g \in Goroutines :
       \/ GcGate(g)
       \/ GcStamp(g)
       \/ GcRLock(g)
       \/ GcRange(g)
       \/ GcRUnlock(g)
       \/ GcLock(g)
       \/ GcLockWait(g)
       \/ AddRUnlock(g)
       \/ AddLock(g)
       \/ AddLockWait(g)
       \/ AddBody(g)
       \/ AddUnlock(g)
       \/ CountUnlock(g)
       \/ CountRUnlock(g)
       \/ CountLen(g)
  \/ Tick

SpecAdd == Init /\ [][NextAdd]_vars

\* ---------------------------------------------------------------- SpecGo
\* The value and the destinations the goroutines use.
GoValue == "i1"

GoDsts == {d \in Dsts : d.elem \in {"none", "string"}}

\* A Store or a MemStore, not transient.
InitGo == \E d \in Durations : New(d, FALSE) \/ NewMemStore(d, FALSE)

\* The keys g1 names: the keys are interchangeable, so the key of its call
\* is named k1.
GoKeys == {"k1"}

\* One step of a call that has begun.
GoStep(g) ==
  \/ GcGate(g)
  \/ GcStamp(g)
  \/ GcRLock(g)
  \/ GcRange(g)
  \/ GcRUnlock(g)
  \/ GcLock(g)
  \/ GcLockWait(g)
  \/ AddData(g)
  \/ AddRUnlock(g)
  \/ AddLock(g)
  \/ AddLockWait(g)
  \/ AddBody(g)
  \/ AddUnlock(g)
  \/ CountUnlock(g)
  \/ CountRUnlock(g)
  \/ CountLen(g)
  \/ DeleteGet(g)
  \/ DeleteErrUnlock(g)
  \/ DeleteErrRUnlock(g)
  \/ DeleteRUnlock(g)
  \/ DeleteLock(g)
  \/ DeleteLockWait(g)
  \/ DeleteBody(g)
  \/ DeleteUnlock(g)
  \/ FlushLock(g)
  \/ FlushLockWait(g)
  \/ FlushUnlock(g)
  \/ PublicGCRUnlock(g)
  \/ PublicGCUnlock(g)
  \/ ReadUnlock(g)
  \/ ReadRLock(g)
  \/ GetBody(g)
  \/ SetBody(g)
  \/ SetLifetimeBody(g)
  \/ SetTransientBody(g)
  \/ ReadRUnlock(g)

\* Before any call of a worker the store is filled by Adds at time 0, one
\* after the other.  Then g1 makes one call of any operation while g2 makes
\* one call that changes the map (Add, Delete or Flush), concurrently, and
\* the clock ticks.
NextGo ==
  \/ /\ \A g \in Goroutines : pc[g] = "idle"
     /\ now = 0
     /\ \E key \in Keys : ~Has(values, key) /\ Add(key, GoValue)
  \/ \E op \in {"Add", "Set"}, key \in GoKeys : Call("g1", op, key, GoValue)
  \/ \E key \in GoKeys : Call("g1", "Delete", key, "nil")
  \/ \E op \in {"Count", "GC"} : Call("g1", op, "", "nil")
  \/ \E key \in GoKeys, dst \in GoDsts : CallGet("g1", key, dst)
  \/ CallFlush("g1")
  \/ \E d \in Durations, scope \in Scopes : CallSetLifetime("g1", d, scope)
  \/ \E value \in BOOLEAN : CallSetTransient("g1", value)
  \/ \E key \in Keys : Call("g2", "Add", key, GoValue)
  \/ \E key \in Keys : Call("g2", "Delete", key, "nil")
  \/ CallFlush("g2")
  \/ \E g \in Workers : GoStep(g)
  \/ Tick

SpecGo == InitGo /\ [][NextGo]_vars

\* -------------------------------------------------------------- SpecFair
\* As NextGo, with g2 calling Delete or Flush: g1 makes one call of any
\* operation while g2 makes one call that removes entries.
NextFair ==
  \/ /\ \A g \in Goroutines : pc[g] = "idle"
     /\ now = 0
     /\ \E key \in Keys : ~Has(values, key) /\ Add(key, GoValue)
  \/ \E op \in {"Add", "Set"}, key \in GoKeys : Call("g1", op, key, GoValue)
  \/ \E key \in GoKeys : Call("g1", "Delete", key, "nil")
  \/ \E op \in {"Count", "GC"} : Call("g1", op, "", "nil")
  \/ \E key \in GoKeys, dst \in GoDsts : CallGet("g1", key, dst)
  \/ CallFlush("g1")
  \/ \E d \in Durations, scope \in Scopes : CallSetLifetime("g1", d, scope)
  \/ \E value \in BOOLEAN : CallSetTransient("g1", value)
  \/ \E key \in Keys : Call("g2", "Delete", key, "nil")
  \/ CallFlush("g2")
  \/ \E g \in Workers : GoStep(g)
  \/ Tick

\* The goroutines are scheduled fairly and the lock is fair: a goroutine
\* whose next step is possible again and again takes it.
SpecFair ==
  InitGo /\ [][NextFair]_vars /\ \A g \in Workers : SF_vars(GoStep(g))

\* ------------------------------------------------------------- SpecTouch
\* A Store that renews on access.
InitTouch == \E d \in Durations : New(d, FALSE)

\* One step of a call of Get, Set or SetLifetime that has begun.
TouchStep(g) ==
  \/ GcGate(g)
  \/ GcStamp(g)
  \/ GcRLock(g)
  \/ GcRange(g)
  \/ GcRUnlock(g)
  \/ GcLock(g)
  \/ GcLockWait(g)
  \/ ReadUnlock(g)
  \/ ReadRLock(g)
  \/ GetBody(g)
  \/ SetBody(g)
  \/ SetLifetimeBody(g)
  \/ ReadRUnlock(g)

\* The store is filled at time 0; then each worker makes one call of Set,
\* Get or SetLifetime(d, ScopeAll), concurrently, g1 on the key named k1,
\* and the clock ticks.
NextTouch ==
  \/ /\ \A g \in Goroutines : pc[g] = "idle"
     /\ now = 0
     /\ \E key \in Keys : ~Has(values, key) /\ Add(key, GoValue)
  \/ \E g \in Workers :
       \E key \in IF g = "g1" THEN GoKeys ELSE Keys :
         \/ Call(g, "Set", key, GoValue)
         \/ \E dst \in GoDsts : CallGet(g, key, dst)
  \/ \E g \in Workers, d \in Durations : CallSetLifetime(g, d, ScopeAll)
  \/ \E g \in Workers : TouchStep(g)
  \/ Tick

SpecTouch == InitTouch /\ [][NextTouch]_vars

\* -------------------------------------------------------------- SpecSame
\* The key the workers contend for and another one.
SameKey == "k1"

OtherKey == "k2"

\* The value each worker adds: pairwise distinct.
ValueOf(g) == IF g = "g1" THEN "i1" ELSE "i0"

\* One step of a call of Add that has begun.
AddStepOf(g) ==
  \/ GcGate(g)
  \/ GcStamp(g)
  \/ GcRLock(g)
  \/ GcRange(g)
  \/ GcRUnlock(g)
  \/ GcLock(g)
  \/ GcLockWait(g)
  \/ AddData(g)
  \/ AddRUnlock(g)
  \/ AddLock(g)
  \/ AddLockWait(g)
  \/ AddBody(g)
  \/ AddUnlock(g)

\* A Store or a MemStore that may hold an entry under another key; the
\* workers each call Add once on the same key, which is not in the map,
\* concurrently, and the clock ticks.
NextSame ==
  \/ /\ \A g \in Goroutines : pc[g] = "idle"
     /\ now = 0
     /\ ~Has(values, OtherKey)
     /\ Add(OtherKey, GoValue)
  \/ \E g \in Workers : Call(g, "Add", SameKey, ValueOf(g))
  \/ \E g \in Workers : AddStepOf(g)
  \/ Tick

SpecSame == InitGo /\ [][NextSame]_vars

\* -------------------------------------------------------------- SpecLive
\* One tick of the clock with the time stamps re-based instead of the clock
\* value raised: every expireAt and lastgc move one tick into the past.  A
\* stamp is read only through now > expireAt and lastgc + lifetime/5 > now,
\* so an expireAt below now and a lastgc at ZeroTime need not move further.
Elapse ==
  /\ values' = [k \in DOMAIN values |->
                  [values[k] EXCEPT !.expireAt =
                     IF @ - 1 < now - 1 THEN now - 1 ELSE @ - 1]]
  /\ lastgc' = IF lastgc - 1 < ZeroTime THEN ZeroTime ELSE lastgc - 1
  /\ UNCHANGED <<mongo, mem, gated, lifetime, isTransient, now, ret, goVars>>

\* One caller that goes on calling the operations that start with the sweep
\* while time passes without bound.
NextLive ==
  \/ \E key \in Keys, value \in Values : Add(key, value)
  \/ Count
  \/ \E key \in Keys : Delete(key)
  \/ \E key \in Keys, dst \in Dsts : Get(key, dst)
  \/ GC
  \/ \E key \in Keys, value \in Values : Set(key, value)
  \/ Elapse

\* Time keeps advancing and the sweeping operation GC keeps being called.
SpecLive == Init /\ [][NextLive]_vars /\ WF_vars(Elapse) /\ WF_vars(GC)

\* ------------------------------------------------------------- SpecConst
\* The oldest time stamp that is told apart from the older ones: a stamp
\* that is more than a sweep interval before now.
Oldest == now - (MaxDuration \div 5) - 1

\* One tick of the clock with the time stamps re-based, as in Elapse, but the
\* stamps keep their distance to now up to a sweep interval, and ret, which
\* holds the call made at the present time, is cleared.
ElapseWide ==
  /\ values' = [k \in DOMAIN values |->
                  [values[k] EXCEPT !.expireAt =
                     IF @ - 1 < Oldest THEN Oldest ELSE @ - 1]]
  /\ lastgc' = IF lastgc - 1 < ZeroTime THEN ZeroTime ELSE lastgc - 1
  /\ ret' = Result("", "", ErrNil, "none", 0)
  /\ UNCHANGED <<mongo, mem, gated, lifetime, isTransient, now, goVars>>

\* One caller of a gated Store whose default lifetime is never changed,
\* while time passes without bound.
NextConst ==
  \/ \E key \in Keys, value \in Values : Add(key, value)
  \/ Count
  \/ \E key \in Keys : Delete(key)
  \/ Flush
  \/ \E key \in Keys, dst \in Dsts : Get(key, dst)
  \/ GC
  \/ \E key \in Keys, value \in Values : Set(key, value)
  \/ \E value \in BOOLEAN : SetTransient(value)
  \/ ElapseWide

SpecConst == Init /\ [][NextConst]_vars

\* -------------------------------------------------------------- SpecTwin
\* The sweep of a store with map m and last sweep at last: Store.gc when the
\* store is gated, MemStore.gc, which has no gate and no lastgc, otherwise.
SweptOn(m, last, isGated) ==
  IF isGated THEN gc(m, lifetime, last, now)
  ELSE [gc(m, lifetime, ZeroTime, now) EXCEPT !.lastgc = last]

\* A single caller's Add, Count, Delete, Get or Set on a store with map m and
\* last sweep at last: the map, lastgc and results afterwards.  The bodies
\* are those of the actions Add, Count, Delete, Get and Set.
CallOn(m, last, isGated, op, key, value, dst) ==
  LET g == SweptOn(m, last, isGated)
      ok == Has(g.values, key)
      r == setValue(g.values[key].value, dst)
  IN CASE op = "Add" ->
            [values |-> IF ok THEN g.values
                        ELSE MapPut(g.values, key,
                                    NewMemData(lifetime, value, now)),
             lastgc |-> g.lastgc,
             ret |-> Result("Add", key,
                            IF ok THEN DuplicatedKeyError ELSE ErrNil,
                            "none", 0)]
       [] op = "Count" ->
            [values |-> g.values,
             lastgc |-> g.lastgc,
             ret |-> Result("Count", "", ErrNil, "none",
                            Cardinality(DOMAIN g.values))]
       [] op = "Delete" ->
            [values |-> IF ok THEN MapDelete(g.values, key) ELSE g.values,
             lastgc |-> g.lastgc,
             ret |-> Result("Delete", key,
                            IF ok THEN ErrNil ELSE InvalidKeyError, "none", 0)]
       [] op = "Get" ->
            [values |-> IF ok THEN MapPut(g.values, key, Renew(g.values[key]))
                        ELSE g.values,
             lastgc |-> g.lastgc,
             ret |-> IF ok THEN Result("Get", key, r.err, r.out, 0)
                     ELSE Result("Get", key, InvalidKeyError, dst.old, 0)]
       [] op = "Set" ->
            [values |-> IF ok
                        THEN MapPut(g.values, key,
                                    Renew(SetValue(g.values[key], value)))
                        ELSE g.values,
             lastgc |-> g.lastgc,
             ret |-> Result("Set", key,
                            IF ok THEN ErrNil ELSE InvalidKeyError, "none", 0)]

\* The same call made on the Store and on the MemStore at the same time: a
\* and b are what it leaves of the one and of the other.  The calls go on as
\* long as the results of the two stores have been the same.
Both(a, b) ==
  /\ ret = mem.ret
  /\ values' = a.values
  /\ lastgc' = a.lastgc
  /\ ret' = a.ret
  /\ mem' = [values |-> b.values, ret |-> b.ret]

\* The pointer destinations that Get is given on both stores.
TwinDsts == {dst \in Dsts : dst.kind = "ptr" /\ dst.elem # "string"}

BothAdd(key, value) ==
  /\ Both(CallOn(values, lastgc, TRUE, "Add", key, value, NoLocals.dst),
          CallOn(mem.values, ZeroTime, FALSE, "Add", key, value, NoLocals.dst))
  /\ UNCHANGED <<mongo, gated, lifetime, isTransient, now, goVars>>

BothCount ==
  /\ Both(CallOn(values, lastgc, TRUE, "Count", "", "nil", NoLocals.dst),
          CallOn(mem.values, ZeroTime, FALSE, "Count", "", "nil", NoLocals.dst))
  /\ UNCHANGED <<mongo, gated, lifetime, isTransient, now, goVars>>

BothDelete(key) ==
  /\ Both(CallOn(values, lastgc, TRUE, "Delete", key, "nil", NoLocals.dst),
          CallOn(mem.values, ZeroTime, FALSE, "Delete", key, "nil", NoLocals.dst))
  /\ UNCHANGED <<mongo, gated, lifetime, isTransient, now, goVars>>

BothGet(key, dst) ==
  /\ Both(CallOn(values, lastgc, TRUE, "Get", key, "nil", dst),
          CallOn(mem.values, ZeroTime, FALSE, "Get", key, "nil", dst))
  /\ UNCHANGED <<mongo, gated, lifetime, isTransient, now, goVars>>

BothSet(key, value) ==
  /\ Both(CallOn(values, lastgc, TRUE, "Set", key, value, NoLocals.dst),
          CallOn(mem.values, ZeroTime, FALSE, "Set", key, value, NoLocals.dst))
  /\ UNCHANGED <<mongo, gated, lifetime, isTransient, now, goVars>>

\* One tick of the clock for both stores, with the time stamps re-based as in
\* Elapse; the results of the last call stay.
ElapseBoth ==
  /\ ret = mem.ret
  /\ values' = [k \in DOMAIN values |->
                  [values[k] EXCEPT !.expireAt =
                     IF @ - 1 < now - 1 THEN now - 1 ELSE @ - 1]]
  /\ lastgc' = IF lastgc - 1 < ZeroTime THEN ZeroTime ELSE lastgc - 1
  /\ mem' = [mem EXCEPT !.values =
               [k \in DOMAIN mem.values |->
                  [mem.values[k] EXCEPT !.expireAt =
                     IF @ - 1 < now - 1 THEN now - 1 ELSE @ - 1]]]
  /\ UNCHANGED <<mongo, gated, lifetime, isTransient, now, ret, goVars>>

\* One caller makes every call on a gated Store and on a MemStore that were
\* constructed alike, while time passes without bound.
NextTwin ==
  \/ \E key \in Keys, value \in Values : BothAdd(key, value)
  \/ BothCount
  \/ \E key \in Keys : BothDelete(key)
  \/ \E key \in Keys, dst \in TwinDsts : BothGet(key, dst)
  \/ \E key \in Keys, value \in Values : BothSet(key, value)
  \/ ElapseBoth

InitTwin == \E d \in Durations : New(d, FALSE)

SpecTwin == InitTwin /\ [][NextTwin]_vars

\* ------------------------------------------------------------ MongoStore
\* The values handed to the MongoStore: an int, a string, and a func, which
\* msgpack cannot encode.
MongoValues == {"i1", "s0", "f0"}

MarshalError == "MarshalError"

UnmarshalError == "UnmarshalError"

\* msgpack.Marshal(value): the error and the bytes.
Marshal(value) ==
  IF value = "f0" THEN [err |-> MarshalError, b |-> <<>>]
  ELSE [err |-> ErrNil, b |-> <<"msgpack", value>>]

\* msgpack.Unmarshal(b, &ref) for a ref that points to a variable: the error
\* and what the variable holds afterwards.
Unmarshal(b, dst) ==
  IF AssignableTo(TypeOf(b[2]), dst.elem) THEN [err |-> ErrNil, out |-> b[2]]
  ELSE [err |-> UnmarshalError, out |-> dst.old]

\* mongoData
NewMongoData(at, b) == [at |-> at, val |-> b]

\* mongoData.IsExpired(lifetime): time.Now().After(d.CreatedAt.Add(lifetime))
MongoIsExpired(doc, lt, t) == t > doc.at + lt

\* The store's variables that no call of the MongoStore touches.
memVars == <<values, lifetime, isTransient, lastgc, gated, mem>>

\* NewMongoStore(db, name, d)
NewMongoStore(d) ==
  /\ values = EmptyMap
  /\ lifetime = d
  /\ isTransient = FALSE
  /\ lastgc = ZeroTime
  /\ gated = FALSE
  /\ now = 0
  /\ ret = Result("New", "", ErrNil, "none", 0)
  /\ mutex = FreeMutex
  /\ pc = [g \in Goroutines |-> "idle"]
  /\ loc = [g \in Goroutines |-> NoLocals]
  /\ mem = NoMem
  /\ mongo = [col |-> EmptyMap, lifetime |-> d, isTransient |-> FALSE,
              ensureAccuracy |-> FALSE, expireAfter |-> d]

\* testExpiration, but a record is never found expired.
testExpirationFound(key) ==
  IF ~Has(mongo.col, key) THEN InvalidKeyError ELSE ErrNil

\* MongoStore.testExpiration
testExpiration(key) ==
  IF ~Has(mongo.col, key) THEN InvalidKeyError
  ELSE IF MongoIsExpired(mongo.col[key], mongo.lifetime, now)
       THEN InvalidKeyError
       ELSE ErrNil

\* The error of the double check that Delete, Get and Set begin with.
Accuracy(key) == IF mongo.ensureAccuracy THEN testExpiration(key) ELSE ErrNil

\* MongoStore.Add
MongoAdd(key, value) ==
  LET m == Marshal(value)
      err == IF m.err # ErrNil THEN m.err
             ELSE IF Has(mongo.col, key) THEN DuplicatedKeyError
             ELSE ErrNil
  IN /\ mongo' = IF err = ErrNil
                 THEN [mongo EXCEPT !.col =
                         MapPut(@, key, NewMongoData(now, m.b))]
                 ELSE mongo
     /\ ret' = Result("Add", key, err, "none", 0)
     /\ UNCHANGED <<memVars, now, goVars>>

\* MongoStore.Count
MongoCount ==
  /\ ret' = Result("Count", "", ErrNil, "none", Cardinality(DOMAIN mongo.col))
  /\ UNCHANGED <<memVars, mongo, now, goVars>>

\* MongoStore.Delete
MongoDelete(key) ==
  LET err == IF Accuracy(key) # ErrNil THEN Accuracy(key)
             ELSE IF ~Has(mongo.col, key) THEN InvalidKeyError
             ELSE ErrNil
  IN /\ mongo' = IF err = ErrNil
                 THEN [mongo EXCEPT !.col = MapDelete(@, key)]
                 ELSE mongo
     /\ ret' = Result("Delete", key, err, "none", 0)
     /\ UNCHANGED <<memVars, now, goVars>>

\* MongoStore.EnsureAccuracy
EnsureAccuracy(value) ==
  /\ mongo' = [mongo EXCEPT !.ensureAccuracy = value]
  /\ ret' = Result("EnsureAccuracy", "", ErrNil, "none", 0)
  /\ UNCHANGED <<memVars, now, goVars>>

\* MongoStore.Flush
MongoFlush ==
  /\ mongo' = [mongo EXCEPT !.col = EmptyMap]
  /\ ret' = Result("Flush", "", ErrNil, "none", 0)
  /\ UNCHANGED <<memVars, now, goVars>>

\* MongoStore.GC
MongoGC ==
  /\ ret' = Result("GC", "", ErrNil, "none", 0)
  /\ UNCHANGED <<memVars, mongo, now, goVars>>

\* MongoStore.Get: the double check, the $currentDate update of a store that
\* is not transient, the lookup and the decoding.
MongoGet(key, dst) ==
  LET ok == Accuracy(key) = ErrNil /\ Has(mongo.col, key)
      r == Unmarshal(mongo.col[key].val, dst)
  IN /\ mongo' = IF ok /\ ~mongo.isTransient
                 THEN [mongo EXCEPT !.col[key].at = now]
                 ELSE mongo
     /\ ret' = IF ok THEN Result("Get", key, r.err, r.out, 0)
               ELSE Result("Get", key, InvalidKeyError, dst.old, 0)
     /\ UNCHANGED <<memVars, now, goVars>>

\* MongoStore.Set: the value is encoded before the double check.
MongoSet(key, value) ==
  LET m == Marshal(value)
      err == IF m.err # ErrNil THEN m.err
             ELSE IF Accuracy(key) # ErrNil THEN Accuracy(key)
             ELSE IF ~Has(mongo.col, key) THEN InvalidKeyError
             ELSE ErrNil
  IN /\ mongo' = IF err = ErrNil
                 THEN [mongo EXCEPT
                         !.col[key].val = m.b,
                         !.col[key].at = IF mongo.isTransient THEN @ ELSE now]
                 ELSE mongo
     /\ ret' = Result("Set", key, err, "none", 0)
     /\ UNCHANGED <<memVars, now, goVars>>

\* MongoStore.SetLifetime: ScopeAll rebuilds the index and stores d.
MongoSetLifetime(d, scope) ==
  /\ mongo' = IF scope = ScopeAll
              THEN [mongo EXCEPT !.expireAfter = d, !.lifetime = d]
              ELSE mongo
  /\ ret' = Result("SetLifetime", "",
                   IF scope = ScopeAll THEN ErrNil ELSE NotSupportedError,
                   "none", 0)
  /\ UNCHANGED <<memVars, now, goVars>>

\* MongoStore.SetTransient
MongoSetTransient(value) ==
  /\ mongo' = [mongo EXCEPT !.isTransient = value]
  /\ ret' = Result("SetTransient", "", ErrNil, "none", 0)
  /\ UNCHANGED <<memVars, now, goVars>>

\* The engine removes a record whose time field is older than the index's
\* ExpireAfter, at some time after that.
EngineRemoves(key) ==
  /\ Has(mongo.col, key)
  /\ now > mongo.col[key].at + mongo.expireAfter
  /\ mongo' = [mongo EXCEPT !.col = MapDelete(@, key)]
  /\ UNCHANGED <<memVars, now, ret, goVars>>

InitMongo == \E d \in Durations : NewMongoStore(d)

NextMongo ==
  \/ \E key \in Keys, value \in MongoValues : MongoAdd(key, value)
  \/ MongoCount
  \/ \E key \in Keys : MongoDelete(key)
  \/ \E value \in BOOLEAN : EnsureAccuracy(value)
  \/ MongoFlush
  \/ MongoGC
  \/ \E key \in Keys, dst \in TwinDsts : MongoGet(key, dst)
  \/ \E key \in Keys, value \in MongoValues : MongoSet(key, value)
  \/ \E d \in Durations, scope \in Scopes : MongoSetLifetime(d, scope)
  \/ \E value \in BOOLEAN : MongoSetTransient(value)
  \/ \E key \in Keys : EngineRemoves(key)
  \/ Tick

SpecMongo == InitMongo /\ [][NextMongo]_vars

\* ------------------------------------------------------------ properties
\* The entry under k is in the map and its expireAt has not passed.
Live(k) == Has(values, k) /\ ~IsExpired(values[k], now)

\* The entry under k is in the map although its expireAt has passed.
Stale(k) == Has(values, k) /\ IsExpired(values[k], now)

\* Every entry of the map after the step was there before it, unchanged, and
\* every entry the step removed was expired when the step was taken.
OnlySweeps ==
  /\ \A j \in DOMAIN values' : Has(values, j) /\ values'[j] = values[j]
  /\ \A j \in DOMAIN values \ DOMAIN values' : IsExpired(values[j], now)

\* The step is a call of op by the single caller (every step but Tick is a
\* call, and ret' holds the call and its results); CalledOn: with key k.
Called(op) == now' = now /\ ret'.op = op

CalledOn(op, k) == Called(op) /\ ret'.key = k

\* The step is the call Add(k, v), Set(k, v) or Get(k, d).
AddStep(k, v) == CalledOn("Add", k) /\ Add(k, v)

SetStep(k, v) == CalledOn("Set", k) /\ Set(k, v)

GetStep(k, d) == CalledOn("Get", k) /\ Get(k, d)

\* C1: in the gated Store, Get, Set and Delete of a key whose entry has an
\* expireAt earlier than the current time fail with InvalidKeyError, also
\* when the sweep was skipped by the gate and the entry is still in the map.
C1_ExpiredIsInvalidKey ==
  [][\A k \in Keys :
       (Stale(k) /\ (CalledOn("Get", k) \/ CalledOn("Set", k)
                       \/ CalledOn("Delete", k)))
         => ret'.err = InvalidKeyError]_vars

\* C2: a successful Get(k) delivers to the destination exactly the value of
\* the most recent successful Add(k, v) or Set(k, v): a successful Add or Set
\* stores v, no other step changes the value stored under a key, and a
\* successful Get into a pointer leaves the stored value in the variable it
\* points to.
C2_GetDeliversLastValue ==
  [][\A k \in Keys :
       /\ \A v \in Values :
            (AddStep(k, v) \/ SetStep(k, v)) /\ ret'.err = ErrNil
              => Has(values', k) /\ values'[k].value = v
       /\ (Has(values, k) /\ Has(values', k)
             /\ values'[k].value # values[k].value)
            => CalledOn("Set", k)
       /\ \A d \in Dsts :
            GetStep(k, d) /\ d.kind = "ptr" /\ ret'.err = ErrNil
              => Has(values, k) /\ ret'.out = values[k].value]_vars

\* C3 as stated: Add on a key that holds a live entry fails with
\* DuplicatedKeyError and leaves that entry and every other entry of the map
\* unchanged.
C3_DuplicateLeavesMapUnchanged ==
  [][\A k \in Keys :
       CalledOn("Add", k) /\ Live(k)
         => ret'.err = DuplicatedKeyError /\ values' = values]_vars

\* C3 amended: Add on a key that holds a live entry fails with
\* DuplicatedKeyError and leaves that entry's value, lifetime and expireAt
\* unchanged; every other entry is unchanged too, except that entries
\* already expired at the call may be removed by the sweep.
C3_DuplicateLeavesLiveEntries ==
  [][\A k \in Keys :
       CalledOn("Add", k) /\ Live(k)
         => /\ ret'.err = DuplicatedKeyError
            /\ Has(values', k) /\ values'[k] = values[k]
            /\ OnlySweeps]_vars

\* A second Add of a live key was refused.
C3_Witness ==
  /\ ret.op = "Add"
  /\ ret.err = DuplicatedKeyError
  /\ Live(ret.key)

\* C4 as stated: for a key with no entry in the map, Get, Set and Delete fail
\* with InvalidKeyError and leave the map and all entries unchanged.
C4_AbsentLeavesMapUnchanged ==
  [][\A k \in Keys :
       (~Has(values, k) /\ (CalledOn("Get", k) \/ CalledOn("Set", k)
                              \/ CalledOn("Delete", k)))
         => ret'.err = InvalidKeyError /\ values' = values]_vars

\* C4 amended: for a key with no entry in the map, Get, Set and Delete fail
\* with InvalidKeyError, insert nothing and change no entry; the only change
\* to the map is the sweep's removal of entries already expired at the call.
C4_AbsentIsInvalidKey ==
  [][\A k \in Keys :
       (~Has(values, k) /\ (CalledOn("Get", k) \/ CalledOn("Set", k)
                              \/ CalledOn("Delete", k)))
         => ret'.err = InvalidKeyError /\ OnlySweeps]_vars

\* A Set of a key that is not in the map was refused while the map holds
\* another entry.
C4_Witness ==
  /\ ret.op = "Set"
  /\ ret.err = InvalidKeyError
  /\ ~Has(values, ret.key)
  /\ DOMAIN values # {}

\* C5: in a non-transient store a successful Get or Set at time t leaves the
\* entry's expireAt at t plus the store's default lifetime; an entry whose
\* expireAt has not passed stays in the map until it is deleted or flushed,
\* and Get and Set of it never fail with InvalidKeyError.
C5_TouchRenews ==
  [][\A k \in Keys :
       /\ (CalledOn("Get", k) \/ CalledOn("Set", k)) =>
            /\ Live(k) => ret'.err # InvalidKeyError
            /\ (~isTransient /\ ret'.err = ErrNil)
                 => Has(values', k) /\ values'[k].expireAt = now + lifetime
       /\ (Has(values, k) /\ ~Has(values', k)
             /\ ~IsExpired(values[k], now'))
            => CalledOn("Delete", k) \/ Called("Flush")]_vars

\* A Get at a time when the entry's first expireAt has passed succeeded,
\* because an earlier touch had renewed it, and renewed it again.
C5_Witness ==
  /\ ret.op = "Get"
  /\ ret.err = ErrNil
  /\ ~isTransient
  /\ lifetime = 1
  /\ now >= 2
  /\ Has(values, ret.key)
  /\ values[ret.key].expireAt = now + lifetime

\* The expireAt of the entry under k is a past time plus the entry's lifetime.
Computed(k) == values[k].expireAt - values[k].lifetime \in 0..now

\* C6: in a transient store successful Get and Set calls never change an
\* entry's expireAt or lifetime, and Get and Set of an entry fail with
\* InvalidKeyError once the time its expireAt was computed at plus its
\* lifetime has passed.
C6_TransientNeverRenews ==
  [][\A k \in Keys :
       (isTransient /\ (CalledOn("Get", k) \/ CalledOn("Set", k))) =>
         /\ ret'.err = ErrNil =>
              /\ Has(values, k) /\ Has(values', k)
              /\ values'[k].expireAt = values[k].expireAt
              /\ values'[k].lifetime = values[k].lifetime
         /\ (Stale(k) /\ Computed(k)) => ret'.err = InvalidKeyError]_vars

\* C7: SetLifetime(d, ScopeAll) gives every existing entry the lifetime d and
\* recomputes its expireAt from d (from the time of the call or from the
\* entry's last touch).
C7_ScopeAllRecomputesExpireAt ==
  [][\A d \in Durations :
       (Called("SetLifetime") /\ SetLifetime(d, ScopeAll)) =>
         \A k \in DOMAIN values' :
           /\ values'[k].lifetime = d
           /\ \/ values'[k].expireAt = now + d
              \/ values'[k].expireAt
                   = values[k].expireAt - values[k].lifetime + d]_vars

\* C9: Count returns exactly the number of entries whose expireAt has not
\* passed at the time of the call.
C9_CountIsLiveEntries ==
  [][Called("Count")
       => ret'.n = Cardinality({k \in DOMAIN values : Live(k)})]_vars

\* C10: Flush empties the map and leaves the default lifetime and the
\* transient flag unchanged; the call that follows a Flush returns 0 when it
\* is Count and fails with InvalidKeyError when it is Get, Set or Delete.
C10_FlushEmpties ==
  [][/\ Called("Flush") =>
          /\ DOMAIN values' = {}
          /\ lifetime' = lifetime
          /\ isTransient' = isTransient
     /\ ret.op = "Flush" =>
          /\ Called("Count") => ret'.n = 0
          /\ (Called("Get") \/ Called("Set") \/ Called("Delete"))
               => ret'.err = InvalidKeyError]_vars

\* A Flush has emptied the map at a time when entries had been added.
C10_Witness ==
  /\ ret.op = "Flush"
  /\ DOMAIN values = {}
  /\ lastgc # ZeroTime

\* C11: a call that returns an error changes nothing but what its sweep
\* removes: no entry's value, lifetime or expireAt changes, nothing is
\* inserted, and the default lifetime and the transient flag stay; so for a
\* Get that returns InvalidKeyError or IndereferenceError, transient or not.
C11_FailedCallOnlySweeps ==
  [][(now' = now /\ ret'.err \notin {ErrNil, Panic})
       => OnlySweeps /\ lifetime' = lifetime /\ isTransient' = isTransient]_vars

\* The destination d cannot receive the stored value v: d is not a non-nil
\* pointer, or it points to a variable of another type than v's.
Unreceivable(v, d) ==
  d.kind # "ptr" \/ (v # "nil" /\ ~AssignableTo(TypeOf(v), d.elem))

\* C12: Get(k, d) on a live entry whose value d cannot receive returns an
\* error (it neither succeeds nor panics), leaves what d holds as it was and
\* leaves the stored value unchanged.
C12_UnreceivableIsError ==
  [][\A k \in Keys, d \in Dsts :
       (GetStep(k, d) /\ Live(k) /\ Unreceivable(values[k].value, d))
         => /\ ret'.err \notin {ErrNil, Panic}
            /\ ret'.out = d.old
            /\ Has(values', k) /\ values'[k].value = values[k].value]_vars

\* C13: SetLifetime(d, ScopeNewAndUpdated) stores d as the default lifetime
\* and changes no entry; the default lifetime changes in no other call than
\* SetLifetime; every successful Add, and every successful Get or Set in a
\* non-transient store, leaves the touched entry with the default lifetime
\* and expireAt = now + that lifetime.
C13_NewAndUpdatedOnlyDefault ==
  [][/\ \A d \in Durations :
          (Called("SetLifetime") /\ SetLifetime(d, ScopeNewAndUpdated))
            => /\ values' = values
               /\ lifetime' = d
               /\ ret'.err = ErrNil
     /\ lifetime' # lifetime => Called("SetLifetime")
     /\ \A k \in Keys :
          (/\ ret'.err = ErrNil
           /\ \/ CalledOn("Add", k)
              \/ (~isTransient /\ (CalledOn("Get", k) \/ CalledOn("Set", k))))
            => /\ Has(values', k)
               /\ values'[k].lifetime = lifetime
               /\ values'[k].expireAt = now + lifetime]_vars

\* A Set has given its entry the default lifetime that a SetLifetime with
\* ScopeNewAndUpdated stored, while another entry keeps the lifetime it had.
C13_Witness ==
  /\ ret.op = "Set"
  /\ ret.err = ErrNil
  /\ ~isTransient
  /\ Has(values, ret.key)
  /\ values[ret.key].lifetime = lifetime
  /\ values[ret.key].expireAt = now + lifetime
  /\ \E j \in DOMAIN values : values[j].lifetime # lifetime

\* C14: SetLifetime(d, ScopeNew), and SetLifetime with a scope that is none
\* of the declared ones, returns NotSupportedError; a SetLifetime that
\* returns an error leaves the default lifetime, the map and every entry
\* unchanged.
C14_UnsupportedScopeChangesNothing ==
  [][/\ \A d \in Durations, scope \in {ScopeNew, ScopeOther} :
          (Called("SetLifetime") /\ SetLifetime(d, scope))
            => ret'.err = NotSupportedError
     /\ (Called("SetLifetime") /\ ret'.err # ErrNil)
          => /\ ret'.err = NotSupportedError
             /\ lifetime' = lifetime
             /\ values' = values
             /\ isTransient' = isTransient]_vars

\* A SetLifetime was refused on a store that holds an entry.
C14_Witness ==
  /\ ret.op = "SetLifetime"
  /\ ret.err = NotSupportedError
  /\ DOMAIN values # {}

\* C15: SetTransient(b) stores b as the transient flag and leaves the map,
\* every entry and the default lifetime unchanged; the flag changes in no
\* other call; a later successful Get or Set renews its entry exactly when
\* the flag is false.
C15_SetTransientOnlyPolicy ==
  [][/\ Called("SetTransient")
          => values' = values /\ lifetime' = lifetime /\ lastgc' = lastgc
     /\ \A b \in BOOLEAN :
          (Called("SetTransient") /\ SetTransient(b)) => isTransient' = b
     /\ isTransient' # isTransient => Called("SetTransient")
     /\ \A k \in Keys :
          ((CalledOn("Get", k) \/ CalledOn("Set", k)) /\ ret'.err = ErrNil)
            => /\ Has(values, k) /\ Has(values', k)
               /\ values'[k].expireAt =
                    IF isTransient THEN values[k].expireAt ELSE now + lifetime]_vars

\* SetTransient(true) was called at a time when the store held an entry that
\* a renewal would have moved.
C15_Witness ==
  /\ ret.op = "SetTransient"
  /\ isTransient
  /\ \E k \in DOMAIN values : values[k].expireAt # now + values[k].lifetime

\* What Count would return when called in a state: the number of entries
\* the sweep leaves.
CountOf(m, lt, last, t) == Cardinality(DOMAIN gc(m, lt, last, t).values)

Removed(k) ==
  \/ ~Has(values, k)
  \/ (ret.op = "Add" /\ ret.key = k /\ ret.err = ErrNil)

\* C17: while time advances and sweeping operations keep being called, an
\* entry whose expireAt has passed is eventually removed from the map.
C17_ExpiredEventuallyRemoved ==
  \A k \in Keys : Stale(k) ~> Removed(k)

\* No entry a worker's Add made has expired.
NoneElapsed == \A g \in Workers : ~IsExpired(loc[g].data, now)

\* C8: when the workers have concurrently added pairwise distinct keys to an
\* empty store and no entry's lifetime has elapsed, every Add has succeeded
\* and the Count that follows returns the number of workers.
C8_ConcurrentAddsAllCounted ==
  (pc[Main] = "done" /\ NoneElapsed) =>
    /\ \A g \in Workers : loc[g].err = ErrNil
    /\ loc[Main].n = Cardinality(Workers)
    /\ DOMAIN values = {KeyOf(g) : g \in Workers}

\* The Count has returned the number of workers while no lifetime had
\* elapsed, after a sweep that scanned the map.
C8_Witness ==
  /\ pc[Main] = "done"
  /\ NoneElapsed
  /\ loc[Main].n = Cardinality(Workers)
  /\ loc[Main].status = ReadLocked

\* A step of a sweep removes the entry under k: the delete that ends the
\* upgrade, or a delete of the range loop under the write lock.
SweepRemoves(k) ==
  /\ Has(values, k)
  /\ ~Has(values', k)
  /\ \E g \in Workers :
       \/ pc[g] = "gc_lockwait" /\ pc'[g] = "gc_range"
       \/ /\ pc[g] = "gc_range" /\ pc'[g] = "gc_range"
          /\ mutex.w = g /\ mutex.held

\* The entry under k is the one that an Add of a goroutine, which has
\* returned with success, inserted.
Inserted(k) ==
  \E h \in Workers :
    /\ pc[h] = "done"
    /\ loc[h].op = "Add" /\ loc[h].key = k /\ loc[h].err = ErrNil
    /\ values[k] = loc[h].data

\* C18: under every interleaving the sweep removes an entry only if the
\* entry is expired at the moment it is removed; an entry that another
\* goroutine inserted under the key while the sweep was between its RUnlock
\* and its Lock is not removed, so that no sweep undoes a successful Add of
\* an entry that has not expired.
C18_SweepRemovesOnlyExpired ==
  [][\A k \in Keys : (SweepRemoves(k) /\ Inserted(k))
                       => IsExpired(values[k], now)]_vars

\* C19: under every interleaving of a sweep with Flush, Delete and Add, the
\* sweep finds every key its range produces in the map: it never calls
\* IsExpired on a missing entry and never panics (holding the write lock).
C19_SweepNeverPanics == \A g \in Goroutines : pc[g] # "panic"

\* The positions at which a goroutine is about to call RUnlock and Unlock.
RUnlockPcs ==
  {"gc_runlock", "add_runlock", "count_runlock", "delete_err_runlock",
   "delete_runlock", "gc_op_runlock", "rd_runlock"}

UnlockPcs ==
  {"add_unlock", "count_unlock", "delete_err_unlock", "delete_unlock",
   "flush_unlock", "gc_op_unlock", "rd_unlock"}

\* C20: for every operation and every lock state its sweep returned, a
\* goroutine calls RUnlock only while it holds the lock in read mode and
\* Unlock only while it holds it in write mode, and it holds the lock in no
\* mode when its call has returned, with or without an error.
C20_LocksReleasedOnce ==
  \A g \in Workers :
    /\ pc[g] \in RUnlockPcs => g \in mutex.readers
    /\ pc[g] \in UnlockPcs => mutex.w = g /\ mutex.held
    /\ pc[g] = "done" => g \notin mutex.readers /\ mutex.w # g

\* Both calls have returned, one of them a Delete that failed after a sweep
\* that returned with the write lock, and the lock is free.
C20_Witness ==
  /\ \A g \in Workers : pc[g] = "done"
  /\ loc["g1"].op = "Delete"
  /\ loc["g1"].err = InvalidKeyError
  /\ loc["g1"].status = WriteLocked
  /\ mutex = FreeMutex

\* The goroutine holds the lock, in read or in write mode.
HoldsLock(g) == g \in mutex.readers \/ (mutex.w = g /\ mutex.held)

\* The positions at which a call is about to read s.values: the lookup and
\* the range of the sweep, the existence checks of Add and Delete, len in
\* Count, unsafeGet in Get and Set, the range of SetLifetime.
MapReadPcs == {"gc_range", "add_body", "count_len", "delete_get", "rd_body"}

\* C21: in the gated Store every read of the entry map (key lookup, length,
\* iteration) is made while the calling goroutine holds the lock in read or
\* write mode, Count's length read and Delete's existence check after a
\* skipped sweep included.
C21_MapReadsUnderLock ==
  \A g \in Workers : (gated /\ pc[g] \in MapReadPcs) => HoldsLock(g)

\* The step is one of g's steps that insert into, delete from or replace
\* s.values.
ChangesMap(g) ==
  \/ AddBody(g)
  \/ DeleteBody(g)
  \/ GcRange(g)
  \/ GcLockWait(g)
  \/ FlushLockWait(g)

\* C22: in both in-memory stores every structural change of the entry map
\* (the insert of Add, the delete of Delete and of the sweep, the replacement
\* of Flush) is made by a goroutine that holds the lock in write mode,
\* whatever lock state its sweep returned.
C22_MapChangesUnderWriteLock ==
  [][/\ \A g \in Workers :
          (ChangesMap(g) /\ values' # values) => (mutex'.w = g /\ mutex'.held)
     /\ (DOMAIN values' # DOMAIN values /\ \E g \in Workers : pc[g] # "idle")
          => mutex'.held]_vars

\* A Delete of the gated Store whose sweep was skipped has taken the write
\* lock and removed its entry.
C22_Witness ==
  /\ gated
  /\ pc["g1"] = "delete_unlock"
  /\ loc["g1"].op = "Delete"
  /\ loc["g1"].status = Unlocked
  /\ ~Has(values, loc["g1"].key)
  /\ mutex.w = "g1" /\ mutex.held

\* The goroutine is in the section of Get, Set or SetLifetime(ScopeAll) that
\* writes the fields of the entry under k (SetValue, SetLifetime, Hit), with
\* the read lock.
WritesEntry(g, k) ==
  /\ pc[g] = "rd_body"
  /\ g \in mutex.readers
  /\ Has(values, k)
  /\ \/ loc[g].op = "Set" /\ loc[g].key = k
     \/ loc[g].op = "Get" /\ loc[g].key = k /\ ~isTransient
     \/ loc[g].op = "SetLifetime" /\ loc[g].scope = ScopeAll

\* The goroutine is in the range of its sweep, under the read lock, and has
\* still to read the expireAt of the entry under k (IsExpired).
ReadsEntry(g, k) ==
  /\ pc[g] = "gc_range"
  /\ g \in mutex.readers
  /\ Has(values, k)
  /\ k \in loc[g].todo

\* C23: while a goroutine is in the section of Get, Set or
\* SetLifetime(ScopeAll) that writes an entry's fields under the read lock,
\* no other goroutine is reading or writing the fields of the same entry; two
\* concurrent Set(k, ...) are never both in that section.
C23_EntryWritesExclusive ==
  \A g, h \in Workers, k \in Keys :
    (g # h /\ WritesEntry(g, k)) => ~(WritesEntry(h, k) \/ ReadsEntry(h, k))

\* The workers' concurrent Adds of the same key have all returned: exactly
\* one has succeeded, the others have failed with DuplicatedKeyError, and the
\* map holds the value of the one that succeeded.
OneAddWins ==
  \E g \in Workers :
    /\ loc[g].err = ErrNil
    /\ \A h \in Workers \ {g} : loc[h].err = DuplicatedKeyError
    /\ Has(values, SameKey)
    /\ values[SameKey].value = ValueOf(g)

\* C24 as stated: when several goroutines have concurrently called Add with
\* the same key, absent at first, exactly one call has succeeded, the others
\* have failed with DuplicatedKey and the map holds the winner's value.
C24_OneAddWins ==
  (\A g \in Workers : pc[g] = "done") => OneAddWins

\* C24 amended: the same, provided that no lifetime of an entry the calls
\* made has elapsed during the run.
C24_OneAddWinsUnexpired ==
  ((\A g \in Workers : pc[g] = "done") /\ NoneElapsed) => OneAddWins

\* Both Adds have returned within the lifetime, the Add of g2 with success
\* and the Add of g1 with DuplicatedKeyError.
C24_Witness ==
  /\ \A g \in Workers : pc[g] = "done"
  /\ NoneElapsed
  /\ loc["g1"].err = DuplicatedKeyError
  /\ loc["g2"].err = ErrNil
  /\ values[SameKey].value = ValueOf("g2")

\* The call of g is a Delete of key k that has returned with err.
Deleted(g, k, err) ==
  pc[g] = "done" /\ loc[g].op = "Delete" /\ loc[g].key = k /\ loc[g].err = err

\* C25: when several goroutines have concurrently called Delete(k) on one
\* live entry (no lifetime has elapsed, no Add of k runs), at most one of the
\* calls has returned success: no Delete reports success without having
\* removed an entry itself.
C25_OneDeleteWins ==
  \A k \in Keys :
    now = 0 => ~(\A g \in Workers : Deleted(g, k, ErrNil))

\* The positions of a sweep that has not returned.
SweepPcs ==
  {"gc", "gc_stamp", "gc_rlock", "gc_range", "gc_runlock", "gc_lock",
   "gc_lockwait", "panic"}

\* The step is the return of g's sweep.
SweepReturns(g) == pc[g] \in {"gc", "gc_range"} /\ pc'[g] \notin SweepPcs

\* On return of g's sweep the status says which mode of the lock g holds, and
\* dot.Unlocked is returned exactly by a sweep that the gate skipped, which
\* has taken no lock and changed nothing.
StatusIsLockMode(g) ==
  /\ loc'[g].status = WriteLocked <=> (mutex'.w = g /\ mutex'.held)
  /\ loc'[g].status = ReadLocked <=> g \in mutex'.readers
  /\ loc'[g].status = Unlocked <=> pc[g] = "gc"
  /\ loc'[g].status = Unlocked =>
       (mutex' = mutex /\ values' = values /\ loc'[g].removed = 0)

\* C26 as stated: on return from the sweep the status is the lock mode the
\* goroutine holds; it is WriteLocked exactly when the pass has deleted at
\* least one entry, ReadLocked when it has scanned and deleted nothing, and
\* Unlocked exactly when the gate skipped the pass.
C26_StatusIsLockModeAndDeletes ==
  [][\A g \in Workers :
       SweepReturns(g) =>
         /\ StatusIsLockMode(g)
         /\ loc'[g].status = WriteLocked <=> loc'[g].removed > 0]_vars

\* C26 amended: the status is the lock mode the goroutine holds; it is
\* WriteLocked exactly when the pass has found an expired entry and upgraded
\* the lock, so always when it has deleted an entry, and ReadLocked only
\* when it has deleted nothing.
C26_StatusIsLockMode ==
  [][\A g \in Workers :
       SweepReturns(g) =>
         /\ StatusIsLockMode(g)
         /\ loc'[g].status = WriteLocked <=> loc'[g].writeLocked
         /\ loc'[g].removed > 0 => loc'[g].status = WriteLocked]_vars

\* The sweep of a call of GC has returned dot.WriteLocked after it deleted
\* an entry, and the goroutine holds the write lock.
C26_Witness ==
  /\ pc["g1"] = "gc_op_unlock"
  /\ loc["g1"].status = WriteLocked
  /\ loc["g1"].removed > 0
  /\ mutex.w = "g1" /\ mutex.held

\* The step begins the upgrade of g's sweep: the loop leaves for RUnlock.
StartsUpgrade(g) == pc[g] = "gc_range" /\ pc'[g] = "gc_runlock"

\* With the step g's sweep gets the lock in write mode.
AcquiresWrite(g) ==
  pc[g] \in SweepPcs /\ ~(mutex.w = g /\ mutex.held) /\ mutex'.w = g /\ mutex'.held

\* C27: within one pass of the sweep the lock is upgraded from read to write
\* at most once, at an expired entry: the upgrade begins only while the pass
\* has not upgraded, at an entry that is expired; the write lock is taken
\* only by that upgrade; and once upgraded the pass keeps the write lock
\* until it ends, however many expired entries it deletes.  A pass that
\* finds no expired entry therefore never takes the write lock.
C27_UpgradesOnce ==
  [][\A g \in Workers :
       /\ StartsUpgrade(g) =>
            /\ ~loc[g].writeLocked
            /\ g \in mutex.readers
            /\ Has(values, loc'[g].cur)
            /\ IsExpired(values[loc'[g].cur], now)
       /\ AcquiresWrite(g) =>
            pc[g] = "gc_lockwait" /\ ~loc[g].writeLocked /\ loc'[g].writeLocked
       /\ (loc[g].writeLocked /\ pc[g] \in SweepPcs /\ pc'[g] \in SweepPcs) =>
            loc'[g].writeLocked /\ mutex'.w = g /\ mutex'.held]_vars

\* The sweep of a call of GC has returned after it deleted two expired
\* entries under the write lock of its upgrade.
C27_Witness ==
  /\ pc["g1"] = "gc_op_unlock"
  /\ loc["g1"].removed = 2
  /\ loc["g1"].writeLocked
  /\ mutex.w = "g1" /\ mutex.held

\* C28: a call of GC by a single caller at time now, whose sweep the gate
\* does not skip, removes exactly the entries whose expireAt is earlier than
\* now and leaves every other entry (key, value, lifetime, expireAt) and the
\* store's default lifetime and transient flag as they were.
C28_SweepRemovesExactlyExpired ==
  [][(Called("GC") /\ GC /\ ~(lastgc + (lifetime \div 5) > now)) =>
       /\ DOMAIN values' = {k \in DOMAIN values : ~(values[k].expireAt < now)}
       /\ \A k \in DOMAIN values' : values'[k] = values[k]
       /\ lifetime' = lifetime
       /\ isTransient' = isTransient]_vars

\* A GC has just scanned at a time at which the entry it left in the map
\* expires, so that an entry whose expireAt equals the time of the sweep has
\* been kept.
C28_Witness ==
  /\ ret.op = "GC"
  /\ lastgc = now
  /\ \E k \in DOMAIN values : values[k].expireAt = now

\* The step is g's store of lastgc, with which its scan starts.
StartsScan(g) == pc[g] = "gc_stamp" /\ pc'[g] = "gc_rlock"

\* C29: in the gated Store a pass scans the map only if at least lifetime/5
\* (integer division of the current default lifetime) has elapsed since the
\* start of the previous scan by any goroutine; the first sweep of a fresh
\* store (lastgc is the zero time and no other goroutine is about to store
\* it) always scans; and lastgc changes only when a scan starts, to the time
\* of that start.
C29_ScanOnlyAfterInterval ==
  [][\A g \in Workers :
       /\ StartsScan(g) => now - lastgc >= lifetime \div 5
       /\ (gated /\ lastgc = ZeroTime /\ ~LastgcRace(g) /\ GcGate(g)) =>
            pc'[g] = "gc_stamp"
       /\ (lastgc' # lastgc /\ pc[g] # "idle") =>
            (lastgc' = now /\ \E h \in Workers : StartsScan(h))]_vars

\* C30: Add(k, v) succeeds whenever k has no live entry: also when the only
\* entry under k is expired and still in the map because the gate skipped
\* the sweep, Add returns no error and stores the new value.
C30_AddOverExpiredSucceeds ==
  [][\A k \in Keys, v \in Values :
       (AddStep(k, v) /\ ~Live(k)) =>
         /\ ret'.err = ErrNil
         /\ Has(values', k)
         /\ values'[k].value = v]_vars

\* C31: once the expireAt of the entry under k has passed, no call of Get,
\* Set, SetLifetime or SetTransient makes the entry live again: after such a
\* call k has no entry whose expireAt is still to come.
C31_ExpiredStaysExpired ==
  [][\A k \in Keys :
       (Stale(k) /\ \E op \in {"Get", "Set", "SetLifetime", "SetTransient"} :
                      Called(op))
         => ~(Has(values', k) /\ ~IsExpired(values'[k], now'))]_vars

\* The step is a Get or a Set of k that succeeds.
Served(k) ==
  \/ \E d \in Dsts : GetStep(k, d) /\ ret'.err = ErrNil
  \/ \E v \in Values : SetStep(k, v) /\ ret'.err = ErrNil

\* C32 as stated: with a constant default lifetime L and one caller,
\* whenever Get(k) or Set(k, v) succeeds at time t on an entry whose expireAt
\* before the call is e, t - e < L/5.
C32_ServedWithinInterval ==
  [][\A k \in Keys :
       Served(k) => now - values[k].expireAt < lifetime \div 5]_vars

\* C32 amended: whenever Get(k) or Set(k, v) succeeds at time t on an entry
\* that is expired, with expireAt e < t, then t - e < L/5.
C32_ExpiredServedWithinInterval ==
  [][\A k \in Keys :
       (Served(k) /\ IsExpired(values[k], now))
         => now - values[k].expireAt < lifetime \div 5]_vars

\* The Get just made in a transient store has succeeded on an entry whose
\* expireAt had passed, the gate having skipped the sweep.
C32_Witness ==
  /\ isTransient
  /\ ret.op = "Get"
  /\ ret.err = ErrNil
  /\ Stale(ret.key)
  /\ GateSkips(lifetime, lastgc, now)

\* C33: the entry that a successful Add inserts has the store's default
\* lifetime and an expireAt of the time of the insert plus that lifetime, in
\* the Store and in the MemStore, which builds the entry before it upgrades
\* the lock; so the entry is not expired when it is inserted.
C33_AddedEntryIsFresh ==
  [][\A g \in Workers :
       (AddBody(g) /\ loc'[g].err = ErrNil) =>
         /\ values'[loc[g].key].lifetime = lifetime
         /\ values'[loc[g].key].expireAt = now + lifetime
         /\ ~IsExpired(values'[loc[g].key], now)]_vars

\* C34: at every operation boundary every entry has expireAt = lastTouch +
\* lifetime, with its own lifetime field and the time of its Add or of its
\* last renewing Get, Set or SetLifetime(ScopeAll).  As a property of the
\* steps: an entry of the map after a call either has the lifetime and the
\* expireAt it had before, or has been written at the time of the call and
\* then has expireAt = now + lifetime.
C34_ExpireAtIsTouchPlusLifetime ==
  [][\A k \in DOMAIN values' :
       \/ /\ Has(values, k)
          /\ values'[k].lifetime = values[k].lifetime
          /\ values'[k].expireAt = values[k].expireAt
       \/ values'[k].expireAt = now' + values'[k].lifetime]_vars

\* The scalar fields of the store.
Scalars == {"lifetime", "isTransient", "lastgc"}

\* The goroutine is about to write the field: s.lifetime = d in SetLifetime,
\* s.isTransient = value in SetTransient, s.lastgc = time.Now() in the sweep.
WritesScalar(g, f) ==
  \/ f = "lifetime" /\ pc[g] = "rd_body" /\ loc[g].op = "SetLifetime"
  \/ f = "isTransient" /\ pc[g] = "rd_body" /\ loc[g].op = "SetTransient"
  \/ f = "lastgc" /\ pc[g] = "gc_stamp"

\* The goroutine is about to read the field: the gate reads lifetime and
\* lastgc, NewMemData in Add and the renewal in Get and Set read lifetime,
\* Get and Set read isTransient.
ReadsScalar(g, f) ==
  \/ f = "lifetime" /\ gated /\ pc[g] \in {"gc", "add_body"}
  \/ f = "lifetime" /\ ~gated /\ pc[g] = "add_data"
  \/ f = "lifetime" /\ pc[g] = "rd_body" /\ loc[g].op \in {"Get", "Set"}
                    /\ ~isTransient /\ Has(values, loc[g].key)
  \/ f = "isTransient" /\ pc[g] = "rd_body" /\ loc[g].op \in {"Get", "Set"}
                       /\ Has(values, loc[g].key)
  \/ f = "lastgc" /\ gated /\ pc[g] = "gc"

\* C35: no scalar field of the store (default lifetime, transient flag,
\* lastgc) is written by a goroutine while another goroutine reads or writes
\* the same field.
C35_ScalarWritesExclusive ==
  \A g, h \in Workers, f \in Scalars :
    (g # h /\ WritesScalar(g, f)) => ~(WritesScalar(h, f) \/ ReadsScalar(h, f))

\* The positions at which a goroutine is about to call RLock or Lock, and
\* those at which it waits in Lock.
RLockPcs == {"gc_rlock", "rd_rlock"}

LockPcs == {"gc_lock", "add_lock", "delete_lock", "flush_lock"}

LockWaitPcs ==
  {"gc_lockwait", "add_lockwait", "delete_lockwait", "flush_lockwait"}

\* C36: no goroutine requests the lock, in either mode, while it holds it
\* in any mode: at every RLock and Lock of the sweep and of the operations,
\* upgrades and downgrades included, the caller has released what it held.
C36_NoRecursiveLocking ==
  \A g \in Workers :
    /\ pc[g] \in RLockPcs \cup LockPcs => ~HoldsLock(g)
    /\ pc[g] \in LockWaitPcs => g \notin mutex.readers

\* Add is about to call Lock in its upgrade, after a sweep that returned
\* with the read lock, and holds the lock in no mode.
C36_Witness ==
  /\ pc["g1"] = "add_lock"
  /\ loc["g1"].status = ReadLocked
  /\ ~HoldsLock("g1")

\* C37: under fair scheduling and a fair lock every call of a public
\* operation that a goroutine has begun eventually returns, whatever the
\* other goroutine calls: no call waits for ever.
C37_EveryCallReturns ==
  \A g \in Workers : (pc[g] \notin {"idle", "done"}) ~> (pc[g] = "done")

\* C38: the gate changes no observable result: after every call that one
\* caller makes on the gated Store and on the ungated MemStore at the same
\* time, both have returned the same error, value and count.
C38_GateChangesNoResult == ret = mem.ret

\* The record under k is still in the collection although its creation
\* time plus the configured lifetime is earlier than now, and the double
\* check is enabled.
MongoStale(k) ==
  /\ mongo.ensureAccuracy
  /\ Has(mongo.col, k)
  /\ MongoIsExpired(mongo.col[k], mongo.lifetime, now)

====
